---------------------------- MODULE Spec2Model ----------------------------
(***************************************************************************)
(* A model of the basic market maker of client/mm/mm_basic.go: the config  *)
(* validation, the price/fee calculator, the order placement planner, the  *)
(* rebalance handler and the bot loop that drives it.                      *)
(*                                                                         *)
(* Number representation.  Rates, lots and fees are the uint64 values of   *)
(* the source; the model keeps them small, far from 2^64, so no operation  *)
(* wraps.  The float64 values of the source are fixed-point integers:      *)
(* a GapFactor g is the integer g * GapDenom, a DriftTolerance d the       *)
(* integer d * DriftDenom.  math.Round is round-half-away-from-zero, here  *)
(* RoundDiv on non-negative operands.                                      *)
(***************************************************************************)
EXTENDS Integers, Sequences, FiniteSets, TLC

(***************************************************************************)
(* Bounds of the model.                                                    *)
(***************************************************************************)
\* resolved-epoch notifications the book feed produces
MaxEpoch == 3
\* notifications of another payload type the book feed produces
MaxOther == 1
\* capacity of the book feed channel
MaxFeed == 2
\* resolved-epoch notifications the book feed produces in the fair runs
MaxFairEpoch == 2
\* direct rebalance calls made by the concurrent callers
MaxCalls == 3
\* largest oracle / fiat rate fed to the calculator
MaxRate == 24
\* largest rate step fed to the calculator
MaxStep == 3

\* largest basis price fed to orderPrice, in rate steps
MaxBasisSteps == 6
\* largest fee adjustment fed to orderPrice
MaxFeeAdj == 3
\* largest fee, in base units, an OrderFeesInUnits query answers
MaxFees == 3
\* largest lot size of the market of the fee calculator
MaxLotSize == 3
\* longest placement ladder of a config fed to validate
MaxLadder == 2
\* largest number of lots of a placement fed to updateLotSize
MaxLots == 3
\* calls of account methods each task makes
MaxAcctOps == 2
\* largest small key index derived
MaxKeyIndex == 1
\* rate-step updates that may fall into one ordersToPlace cycle
MaxStepUpdates == 1

(***************************************************************************)
(* Fixed-point denominators of the float64 quantities.                     *)
(***************************************************************************)
GapDenom == 1000
DriftDenom == 10000

\* uint64(math.Round(a / b)) for a >= 0, b > 0
RoundDiv(a, b) == (2 * a + b) \div (2 * b)

Abs(x) == IF x < 0 THEN -x ELSE x

(***************************************************************************)
(* Gap strategies, mm_basic.go:25-40.                                      *)
(***************************************************************************)
GapStrategyMultiplier == "multiplier"
GapStrategyAbsolute == "absolute"
GapStrategyAbsolutePlus == "absolute-plus"
GapStrategyPercent == "percent"
GapStrategyPercentPlus == "percent-plus"

needBreakEvenHalfSpread(strat) ==
    strat = GapStrategyAbsolutePlus \/ strat = GapStrategyPercentPlus
        \/ strat = GapStrategyMultiplier

(***************************************************************************)
(* Errors.  nil is the absent error.                                       *)
(***************************************************************************)
nil == "nil"
errNoBasisPrice == "no oracle or fiat rate available"
errOracleFiatMismatch == "oracle rate and fiat rate mismatch"
errZeroBasisPrice == "basis price cannot be zero"
errSellFees == "error getting sell fees in base units"
errBuyFees == "error getting buy fees in base units"
errDriftTolerance == "drift tolerance out of bounds"
errUnknownStrategy == "unknown gap strategy"
errGapFactorBounds == "gap factor is out of bounds"
errDuplicatePlacement == "duplicate placement"

(***************************************************************************)
(* BasicMarketMakingConfig.validate, mm_basic.go:81-140.  The result is    *)
(* the error and the config as the call leaves it (the default drift       *)
(* tolerance is written before any check).                                 *)
(***************************************************************************)
DefaultDriftTolerance == 10
MaxDriftTolerance == 100

\* limits that leave the upper limit itself out
GapFactorBelowUpperLimit(strat, gapFactor) ==
    CASE strat = GapStrategyMultiplier ->
            gapFactor >= 1 * GapDenom /\ gapFactor < 100 * GapDenom
      [] strat \in {GapStrategyPercent, GapStrategyPercentPlus} ->
            gapFactor >= 0 /\ 10 * gapFactor < GapDenom
      [] strat \in {GapStrategyAbsolute, GapStrategyAbsolutePlus} ->
            gapFactor >= 0
      [] OTHER -> FALSE

\* limits of validatePlacement; the upper limit of the absolute strategies
\* is math.MaxFloat64, which no gap factor exceeds
gapFactorInBounds(strat, gapFactor) ==
    CASE strat = GapStrategyMultiplier ->
            gapFactor >= 1 * GapDenom /\ gapFactor <= 100 * GapDenom
      [] strat \in {GapStrategyPercent, GapStrategyPercentPlus} ->
            gapFactor >= 0 /\ 10 * gapFactor <= GapDenom
      [] strat \in {GapStrategyAbsolute, GapStrategyAbsolutePlus} ->
            gapFactor >= 0
      [] OTHER -> FALSE

\* the loop over one side: the first placement that duplicates an earlier
\* gap factor, or is out of bounds, ends the validation
validateSide(strat, placements) ==
    LET bad(i) ==
            \/ \E j \in 1..(i - 1) : placements[j].GapFactor = placements[i].GapFactor
            \/ ~gapFactorInBounds(strat, placements[i].GapFactor)
        firstBad == IF \E i \in 1..Len(placements) : bad(i)
                    THEN CHOOSE i \in 1..Len(placements) :
                            bad(i) /\ \A k \in 1..(i - 1) : ~bad(k)
                    ELSE 0
    IN  IF firstBad = 0 THEN nil
        ELSE IF \E j \in 1..(firstBad - 1) :
                    placements[j].GapFactor = placements[firstBad].GapFactor
             THEN errDuplicatePlacement
             ELSE errGapFactorBounds

validate(c) ==
    LET c1 == IF c.DriftTolerance = 0
              THEN [c EXCEPT !.DriftTolerance = DefaultDriftTolerance]
              ELSE c
        sellErr == validateSide(c1.GapStrategy, c1.SellPlacements)
        buyErr == validateSide(c1.GapStrategy, c1.BuyPlacements)
        err == IF c1.DriftTolerance < 0 \/ c1.DriftTolerance > MaxDriftTolerance
                   THEN errDriftTolerance
               ELSE IF c1.GapStrategy \notin
                         {GapStrategyMultiplier, GapStrategyPercent,
                          GapStrategyPercentPlus, GapStrategyAbsolute,
                          GapStrategyAbsolutePlus}
                   THEN errUnknownStrategy
               ELSE IF sellErr # nil THEN sellErr
               ELSE buyErr
    IN  [cfg |-> c1, err |-> err]

(***************************************************************************)
(* updateLotSize, mm_basic.go:158-180.                                     *)
(***************************************************************************)
Max(a, b) == IF a >= b THEN a ELSE b
Min(a, b) == IF a <= b THEN a ELSE b

\* the first loop: the quantity the placements hold at the given lot size
RECURSIVE TotalQty(_, _)
TotalQty(placements, lotSize) ==
    IF placements = <<>> THEN 0
    ELSE Head(placements).Lots * lotSize + TotalQty(Tail(placements), lotSize)

\* a second loop that skips the placements whose rescaled lots round to 0
RECURSIVE UpdateLotSizeDropsZero(_, _, _, _, _)
UpdateLotSizeDropsZero(placements, i, qtyCounter, originalLotSize, newLotSize) ==
    IF i > Len(placements) THEN <<>>
    ELSE LET p == placements[i]
             rounded == RoundDiv(p.Lots * originalLotSize, newLotSize)
             maxLots == qtyCounter \div newLotSize
             lots == Min(rounded, maxLots)
         IN  IF lots = 0
             THEN UpdateLotSizeDropsZero(placements, i + 1, qtyCounter,
                                         originalLotSize, newLotSize)
             ELSE <<[Lots |-> lots, GapFactor |-> p.GapFactor]>>
                    \o UpdateLotSizeDropsZero(placements, i + 1,
                                              qtyCounter - lots * newLotSize,
                                              originalLotSize, newLotSize)

\* the second loop, from placement i on, with qtyCounter left
RECURSIVE updateLotSizeFrom(_, _, _, _, _)
updateLotSizeFrom(placements, i, qtyCounter, originalLotSize, newLotSize) ==
    IF i > Len(placements) THEN <<>>
    ELSE LET p == placements[i]
             rounded == RoundDiv(p.Lots * originalLotSize, newLotSize)
             maxLots == qtyCounter \div newLotSize
             lots == Min(Max(rounded, 1), maxLots)
         IN  IF lots = 0
             THEN updateLotSizeFrom(placements, i + 1, qtyCounter,
                                    originalLotSize, newLotSize)
             ELSE <<[Lots |-> lots, GapFactor |-> p.GapFactor]>>
                    \o updateLotSizeFrom(placements, i + 1,
                                         qtyCounter - lots * newLotSize,
                                         originalLotSize, newLotSize)

\* an updateLotSize that rescales each placement without the quantity cap
UpdateLotSizeUncapped(placements, originalLotSize, newLotSize) ==
    [i \in 1..Len(placements) |->
        [Lots |-> Max(RoundDiv(placements[i].Lots * originalLotSize,
                               newLotSize), 1),
         GapFactor |-> placements[i].GapFactor]]

\* variant: each placement takes its rounded lot count, a count of 0 too
UpdateLotSizeRoundsOnly(placements, originalLotSize, newLotSize) ==
    [i \in 1..Len(placements) |->
        [Lots |-> RoundDiv(placements[i].Lots * originalLotSize, newLotSize),
         GapFactor |-> placements[i].GapFactor]]

updateLotSize(placements, originalLotSize, newLotSize) ==
    updateLotSizeFrom(placements, 1, TotalQty(placements, originalLotSize),
                      originalLotSize, newLotSize)

(***************************************************************************)
(* newBasicMarketMaker, mm_basic.go:497-520.  hasCfg is whether            *)
(* cfg.BasicMMConfig is not nil, adaptorErr whether                        *)
(* newUnifiedExchangeAdaptor fails.  The result is whether a bot is        *)
(* returned, the error, and the caller's config as the call leaves it.     *)
(***************************************************************************)
errNoConfig == "no market making config provided"
errAdaptor == "error constructing exchange adaptor"

\* a constructor that builds the bot whatever validate says
NewBotIgnoresValidate(hasCfg, adaptorErr, c) ==
    IF ~hasCfg THEN [bot |-> FALSE, err |-> errNoConfig, cfg |-> c]
    ELSE IF adaptorErr THEN [bot |-> FALSE, err |-> errAdaptor, cfg |-> c]
    ELSE [bot |-> TRUE, err |-> validate(c).err, cfg |-> validate(c).cfg]

newBasicMarketMaker(hasCfg, adaptorErr, c) ==
    IF ~hasCfg THEN [bot |-> FALSE, err |-> errNoConfig, cfg |-> c]
    ELSE IF adaptorErr THEN [bot |-> FALSE, err |-> errAdaptor, cfg |-> c]
    ELSE LET v == validate(c)
         IN  IF v.err # nil
             THEN [bot |-> FALSE, err |-> v.err, cfg |-> v.cfg]
             ELSE [bot |-> TRUE, err |-> nil, cfg |-> v.cfg]

(***************************************************************************)
(* The calculator, mm_basic.go:219-327.                                    *)
(***************************************************************************)
\* steppedRate is defined outside mm_basic.go.  It rounds the rate to the
\* nearest multiple of the step; mm_basic.go:229 records that the result
\* for zero steps is the step itself ("steppedRate(0, x) => x").
steppedRate(r, step) ==
    LET steps == RoundDiv(r, step)
    IN  IF steps = 0 THEN step ELSE steps * step

\* a mismatch measured against the fiat rate
MismatchRelativeToFiat(oracleRate, rateFromFiat) ==
    20 * Abs(oracleRate - rateFromFiat) > rateFromFiat

\* |oracle - fiat| / oracle > 0.05, on exact rationals
oracleFiatMismatch(oracleRate, rateFromFiat) ==
    20 * Abs(oracleRate - rateFromFiat) > oracleRate

BasisPriceMissesFiat(oracleRate, rateFromFiat, rateStep) ==
    IF oracleRate = 0
    THEN [bp |-> 0, err |-> errNoBasisPrice]
    ELSE IF rateFromFiat # 0 /\ oracleFiatMismatch(oracleRate, rateFromFiat)
         THEN [bp |-> 0, err |-> errOracleFiatMismatch]
         ELSE [bp |-> steppedRate(oracleRate, rateStep), err |-> nil]

\* oracleRate is b.msgRate(b.oracle.getMarketPrice(...)), rateFromFiat is
\* b.core.ExchangeRateFromFiatSources(), rateStep is b.rateStep.Load()
\* a basisPrice that falls back to a configured rate, here one rate step,
\* when neither source has a rate
BasisPriceEmptyMarketRate(oracleRate, rateFromFiat, rateStep) ==
    IF rateFromFiat = 0
    THEN IF oracleRate = 0
         THEN [bp |-> rateStep, err |-> nil]
         ELSE [bp |-> steppedRate(oracleRate, rateStep), err |-> nil]
    ELSE IF oracleRate = 0
         THEN [bp |-> steppedRate(rateFromFiat, rateStep), err |-> nil]
         ELSE IF oracleFiatMismatch(oracleRate, rateFromFiat)
              THEN [bp |-> 0, err |-> errOracleFiatMismatch]
              ELSE [bp |-> steppedRate(oracleRate, rateStep), err |-> nil]

basisPrice(oracleRate, rateFromFiat, rateStep) ==
    IF rateFromFiat = 0
    THEN IF oracleRate = 0
         THEN [bp |-> 0, err |-> errNoBasisPrice]
         ELSE [bp |-> steppedRate(oracleRate, rateStep), err |-> nil]
    ELSE IF oracleRate = 0
         THEN [bp |-> steppedRate(rateFromFiat, rateStep), err |-> nil]
         ELSE IF oracleFiatMismatch(oracleRate, rateFromFiat)
              THEN [bp |-> 0, err |-> errOracleFiatMismatch]
              ELSE [bp |-> steppedRate(oracleRate, rateStep), err |-> nil]

\* A result of core.OrderFeesInUnits: the fees in base units, or an error.
FeesOK(units) == [ok |-> TRUE, units |-> units]
FeesErr == [ok |-> FALSE, units |-> 0]

NoStats == [BasisPrice |-> 0, RemoteGap |-> 0, FeeGap |-> 0, RoundTripFees |-> 0]

\* the call b.core.OrderFeesInUnits(sell, true, rate)
FeeQuery(sell, rate) == [sell |-> sell, base |-> TRUE, rate |-> rate]

\* a feeGapStats that asks for the fees before it looks at the basis price
FeeGapStatsQueriesFirst(bp, sellFees, buyFees, lotSize) ==
    LET sellQ == <<FeeQuery(TRUE, bp)>>
        bothQ == <<FeeQuery(TRUE, bp), FeeQuery(FALSE, bp)>>
    IN  IF ~sellFees.ok
        THEN [stats |-> NoStats, err |-> errSellFees, queries |-> sellQ]
        ELSE IF ~buyFees.ok
        THEN [stats |-> NoStats, err |-> errBuyFees, queries |-> bothQ]
        ELSE IF bp = 0
        THEN [stats |-> NoStats, err |-> errZeroBasisPrice, queries |-> bothQ]
        ELSE LET f == sellFees.units + buyFees.units
                 halfGap == RoundDiv(f * bp, f + 2 * lotSize)
             IN  [stats |-> [BasisPrice |-> bp, RemoteGap |-> 0,
                             FeeGap |-> halfGap * 2, RoundTripFees |-> f],
                  err |-> nil, queries |-> bothQ]

\* a feeGapStats whose half-gap leaves the second lot out of the divisor
FeeGapStatsOneLot(bp, sellFees, buyFees, lotSize) ==
    LET sellQ == <<FeeQuery(TRUE, bp)>>
        bothQ == <<FeeQuery(TRUE, bp), FeeQuery(FALSE, bp)>>
    IN  IF bp = 0
        THEN [stats |-> NoStats, err |-> errZeroBasisPrice, queries |-> <<>>]
        ELSE IF ~sellFees.ok
        THEN [stats |-> NoStats, err |-> errSellFees, queries |-> sellQ]
        ELSE IF ~buyFees.ok
        THEN [stats |-> NoStats, err |-> errBuyFees, queries |-> bothQ]
        ELSE LET f == sellFees.units + buyFees.units
                 halfGap == RoundDiv(f * bp, f + lotSize)
             IN  [stats |-> [BasisPrice |-> bp, RemoteGap |-> 0,
                             FeeGap |-> halfGap * 2, RoundTripFees |-> f],
                  err |-> nil, queries |-> bothQ]

\* a feeGapStats that rounds the whole gap instead of doubling the rounded
\* half-gap
FeeGapStatsRoundsGap(bp, sellFees, buyFees, lotSize) ==
    LET sellQ == <<FeeQuery(TRUE, bp)>>
        bothQ == <<FeeQuery(TRUE, bp), FeeQuery(FALSE, bp)>>
    IN  IF bp = 0
        THEN [stats |-> NoStats, err |-> errZeroBasisPrice, queries |-> <<>>]
        ELSE IF ~sellFees.ok
        THEN [stats |-> NoStats, err |-> errSellFees, queries |-> sellQ]
        ELSE IF ~buyFees.ok
        THEN [stats |-> NoStats, err |-> errBuyFees, queries |-> bothQ]
        ELSE LET f == sellFees.units + buyFees.units
             IN  [stats |-> [BasisPrice |-> bp, RemoteGap |-> 0,
                             FeeGap |-> RoundDiv(2 * f * bp, f + 2 * lotSize),
                             RoundTripFees |-> f],
                  err |-> nil, queries |-> bothQ]

\* g * RateEncodingFactor = f * basisPrice / (f + 2l), rounded; the two
\* factors of calc.RateEncodingFactor cancel.  queries are the calls of
\* OrderFeesInUnits the evaluation has made, in order.
feeGapStats(bp, sellFees, buyFees, lotSize) ==
    LET sellQ == <<FeeQuery(TRUE, bp)>>
        bothQ == <<FeeQuery(TRUE, bp), FeeQuery(FALSE, bp)>>
    IN  IF bp = 0
        THEN [stats |-> NoStats, err |-> errZeroBasisPrice, queries |-> <<>>]
        ELSE IF ~sellFees.ok
        THEN [stats |-> NoStats, err |-> errSellFees, queries |-> sellQ]
        ELSE IF ~buyFees.ok
        THEN [stats |-> NoStats, err |-> errBuyFees, queries |-> bothQ]
        ELSE LET f == sellFees.units + buyFees.units
                 halfGap == RoundDiv(f * bp, f + 2 * lotSize)
             IN  [stats |-> [BasisPrice |-> bp, RemoteGap |-> 0,
                             FeeGap |-> halfGap * 2, RoundTripFees |-> f],
                  err |-> nil, queries |-> bothQ]

halfSpread(bp, sellFees, buyFees, lotSize) ==
    LET r == feeGapStats(bp, sellFees, buyFees, lotSize)
    IN  IF r.err # nil
        THEN [halfGap |-> 0, err |-> r.err, queries |-> r.queries]
        ELSE [halfGap |-> r.stats.FeeGap \div 2, err |-> nil,
              queries |-> r.queries]

(***************************************************************************)
(* The planner, mm_basic.go:343-422.  A market is the record               *)
(* [rateStep, lotSize, rateConv]: the current rate step and lot size, and  *)
(* the number of message-rate units of one conventional rate unit.         *)
(***************************************************************************)
\* market.msgRate is defined outside mm_basic.go: the conventional rate
\* converted to message-rate units
msgRate(mkt, convRate) == RoundDiv(convRate * mkt.rateConv, GapDenom)

\* an orderPrice whose -plus strategies leave the fee adjustment out
OrderPriceNoFeeAdj(strat, mkt, bp, feeAdj, sell, gapFactor) ==
    LET base == CASE strat = GapStrategyMultiplier ->
                        RoundDiv(feeAdj * gapFactor, GapDenom)
                  [] strat \in {GapStrategyPercent, GapStrategyPercentPlus} ->
                        RoundDiv(gapFactor * bp, GapDenom)
                  [] strat \in {GapStrategyAbsolute, GapStrategyAbsolutePlus} ->
                        msgRate(mkt, gapFactor)
                  [] OTHER -> 0
        adj == steppedRate(base, mkt.rateStep)
    IN  IF sell THEN bp + adj
        ELSE IF bp < adj THEN 0
        ELSE bp - adj

\* an orderPrice that leaves the offset as computed
OrderPriceUnquantized(strat, mkt, bp, feeAdj, sell, gapFactor) ==
    LET base == CASE strat = GapStrategyMultiplier ->
                        RoundDiv(feeAdj * gapFactor, GapDenom)
                  [] strat \in {GapStrategyPercent, GapStrategyPercentPlus} ->
                        RoundDiv(gapFactor * bp, GapDenom)
                  [] strat \in {GapStrategyAbsolute, GapStrategyAbsolutePlus} ->
                        msgRate(mkt, gapFactor)
                  [] OTHER -> 0
        adj == IF strat \in {GapStrategyAbsolutePlus, GapStrategyPercentPlus}
               THEN base + feeAdj
               ELSE base
    IN  IF sell THEN bp + adj
        ELSE IF bp < adj THEN 0
        ELSE bp - adj

\* variant: the offset is subtracted for a sell and added for a buy
OrderPriceSidesSwapped(strat, mkt, bp, feeAdj, sell, gapFactor) ==
    LET base == CASE strat = GapStrategyMultiplier ->
                        RoundDiv(feeAdj * gapFactor, GapDenom)
                  [] strat \in {GapStrategyPercent, GapStrategyPercentPlus} ->
                        RoundDiv(gapFactor * bp, GapDenom)
                  [] strat \in {GapStrategyAbsolute, GapStrategyAbsolutePlus} ->
                        msgRate(mkt, gapFactor)
                  [] OTHER -> 0
        plus == IF strat \in {GapStrategyAbsolutePlus, GapStrategyPercentPlus}
                THEN base + feeAdj
                ELSE base
        adj == steppedRate(plus, mkt.rateStep)
    IN  IF ~sell THEN bp + adj
        ELSE IF bp < adj THEN 0
        ELSE bp - adj

orderPrice(strat, mkt, bp, feeAdj, sell, gapFactor) ==
    LET base == CASE strat = GapStrategyMultiplier ->
                        RoundDiv(feeAdj * gapFactor, GapDenom)
                  [] strat \in {GapStrategyPercent, GapStrategyPercentPlus} ->
                        RoundDiv(gapFactor * bp, GapDenom)
                  [] strat \in {GapStrategyAbsolute, GapStrategyAbsolutePlus} ->
                        msgRate(mkt, gapFactor)
                  [] OTHER -> 0
        plus == IF strat \in {GapStrategyAbsolutePlus, GapStrategyPercentPlus}
                THEN base + feeAdj
                ELSE base
        adj == steppedRate(plus, mkt.rateStep)
    IN  IF sell THEN bp + adj
        ELSE IF bp < adj THEN 0
        ELSE bp - adj

\* a closure orders that leaves out the rungs whose rate is 0
OrdersDropZeroRate(strat, mkt, bp, feeAdj, orderPlacements, sell) ==
    LET all == [i \in 1..Len(orderPlacements) |->
                    [Rate |-> orderPrice(strat, mkt, bp, feeAdj, sell,
                                         orderPlacements[i].GapFactor),
                     Lots |-> orderPlacements[i].Lots]]
        placed(o) == o.Rate # 0
    IN  SelectSeq(all, placed)

\* the closure orders of ordersToPlace
orders(strat, mkt, bp, feeAdj, orderPlacements, sell) ==
    [i \in 1..Len(orderPlacements) |->
        LET rate == orderPrice(strat, mkt, bp, feeAdj, sell,
                               orderPlacements[i].GapFactor)
        IN  [Rate |-> rate,
             Lots |-> IF rate = 0 THEN 0 ELSE orderPlacements[i].Lots]]

\* in is the record of what the collaborators answer in this cycle:
\* [oracle, fiat, sellFees, buyFees]
\* variant: the fees are consulted only by the strategies that add the
\* break-even half-spread
OrdersToPlaceFeesWhenNeeded(c, mkt, in) ==
    LET b == basisPrice(in.oracle, in.fiat, mkt.rateStep)
        need == needBreakEvenHalfSpread(c.GapStrategy)
        g == feeGapStats(b.bp, in.sellFees, in.buyFees, mkt.lotSize)
        feeAdj == IF need THEN g.stats.FeeGap \div 2 ELSE 0
    IN  IF b.err # nil
        THEN [buyOrders |-> <<>>, sellOrders |-> <<>>, err |-> b.err,
              feeGap |-> NoStats, registered |-> FALSE]
        ELSE IF need /\ g.err # nil
        THEN [buyOrders |-> <<>>, sellOrders |-> <<>>, err |-> g.err,
              feeGap |-> NoStats, registered |-> FALSE]
        ELSE [buyOrders |-> orders(c.GapStrategy, mkt, b.bp, feeAdj,
                                   c.BuyPlacements, FALSE),
              sellOrders |-> orders(c.GapStrategy, mkt, b.bp, feeAdj,
                                    c.SellPlacements, TRUE),
              err |-> nil,
              feeGap |-> IF g.err = nil THEN g.stats ELSE NoStats,
              registered |-> g.err = nil]

ordersToPlace(c, mkt, in) ==
    LET b == basisPrice(in.oracle, in.fiat, mkt.rateStep)
        g == feeGapStats(b.bp, in.sellFees, in.buyFees, mkt.lotSize)
        feeAdj == IF needBreakEvenHalfSpread(c.GapStrategy)
                  THEN g.stats.FeeGap \div 2
                  ELSE 0
    IN  IF b.err # nil
        THEN [buyOrders |-> <<>>, sellOrders |-> <<>>, err |-> b.err,
              feeGap |-> NoStats, registered |-> FALSE]
        ELSE IF g.err # nil
        THEN [buyOrders |-> <<>>, sellOrders |-> <<>>, err |-> g.err,
              feeGap |-> NoStats, registered |-> FALSE]
        ELSE [buyOrders |-> orders(c.GapStrategy, mkt, b.bp, feeAdj,
                                   c.BuyPlacements, FALSE),
              sellOrders |-> orders(c.GapStrategy, mkt, b.bp, feeAdj,
                                    c.SellPlacements, TRUE),
              err |-> nil, feeGap |-> g.stats, registered |-> TRUE]

(***************************************************************************)
(* State.                                                                  *)
(*                                                                         *)
(* The bot: cfg is m.cfg(), market the market's current values,            *)
(* rebalanceRunning the atomic flag of basicMarketMaker.  Procs are the    *)
(* goroutines that can be inside rebalance: the bot loop's background task *)
(* and tasks that call rebalance directly.  For each, pc is its position,  *)
(* loc the local variables of its rebalance invocation and trace the calls *)
(* this invocation has made to the collaborators, in order.  reports is    *)
(* the sequence of epoch reports handed to updateEpochReport.              *)
(*                                                                         *)
(* The book feed: bookFeed is the content of the channel bookFeed.Next(),  *)
(* feedOpen whether its sender has not closed it, sent every notification  *)
(* ever put on it, received every notification the loop took from it.      *)
(* started are the epochs for which the loop called rebalance, finished    *)
(* the invocations that returned to the loop, each with how it went.  ctxDone is the loop's    *)
(* context; killCalls, feedCloseCalls and wgCount count m.kill(),          *)
(* bookFeed.Close() and the wait group; exitVia is the select case the     *)
(* task left its loop by, cancelledDuring the epoch whose rebalance was in  *)
(* flight when the context was cancelled (0 if none).  ncalls counts the   *)
(* direct calls of rebalance.                                              *)
(*                                                                         *)
(* The calculator harness: calcIn are the inputs of one evaluation,        *)
(* calcOut its result.                                                     *)
(*                                                                         *)
(* The account, core/types.go:810-831: encKey, privKey, id and viewOnly    *)
(* are the key group of a dexAccount, keyMtx its lock; isAuthed, disabled, *)
(* rep and bonding (the bond lists and tier settings) are the auth group,   *)
(* authMtx its lock.  A lock is the record                                  *)
(* of the task that holds it for writing and the tasks that hold it for    *)
(* reading.  For each task that calls the account's methods, acall is the  *)
(* call it is in, apc its position in it, atmp the local the call keeps    *)
(* across its steps, aret what its last call returned and adone the number *)
(* of calls it has made.  unguarded are the accesses of key group fields   *)
(* the last step made without keyMtx, lockSnap the key group as the last   *)
(* lock() left it, with the tasks that were inside unlock then.            *)
(***************************************************************************)
VARIABLES cfg, market, rebalanceRunning, pc, loc, trace, reports,
          bookFeed, feedOpen, sent, received, started, finished,
          ctxDone, killCalls, feedCloseCalls, wgCount, exitVia,
          cancelledDuring, ncalls, calcIn, calcOut,
          encKey, privKey, id, viewOnly, keyMtx,
          isAuthed, disabled, rep, bonding, authMtx,
          acall, apc, atmp, aret, adone, unguarded, lockSnap

botVars == <<cfg, market, rebalanceRunning, pc, loc, trace, reports, ncalls>>
feedVars == <<bookFeed, feedOpen, sent, received, started, finished,
              ctxDone, killCalls, feedCloseCalls, wgCount, exitVia, cancelledDuring>>
calcVars == <<calcIn, calcOut>>
keyGroup == <<encKey, privKey, id, viewOnly>>
authGroup == <<isAuthed, disabled, rep, bonding>>
acctVars == <<keyGroup, keyMtx, authGroup, authMtx,
              acall, apc, atmp, aret, adone, unguarded, lockSnap>>
vars == <<botVars, feedVars, calcVars, acctVars>>

Loop == "loop"
Callers == {"c1", "c2"}
Procs == {Loop} \cup Callers

\* positions of a rebalance invocation that has passed the guard
PastGuard == {"health", "cancelUnhealthy", "plan", "cancelFailed",
              "buy", "sell", "report", "release"}
InRebalance == {"guard"} \cup PastGuard

\* a nil *OrderReport, and the report multiTrade returns for one side
NoReport == [side |-> "nil", epoch |-> 0]
OrderReportOf(sell, epoch) ==
    [side |-> IF sell THEN "sell" ELSE "buy", epoch |-> epoch]

NoLoc == [newEpoch |-> 0, guard |-> "none", healthy |-> FALSE,
          buyOrders |-> <<>>, sellOrders |-> <<>>,
          determinePlacementsErr |-> nil,
          buysReport |-> NoReport, sellsReport |-> NoReport]

\* one call to a collaborator, with the arguments the call passes
Call(op, epoch, sell, placements, drift) ==
    [op |-> op, epoch |-> epoch, sell |-> sell,
     placements |-> placements, drift |-> drift]

\* an invocation that has returned, as the caller's locals describe it
Returned(l) ==
    [epoch |-> l.newEpoch, guard |-> l.guard, healthy |-> l.healthy,
     err |-> l.determinePlacementsErr]

\* where a task continues once rebalance has returned
ReturnPc(p) == IF p = Loop THEN "select" ELSE "idle"

\* the task p calls m.rebalance(newEpoch)
Invoke(p, newEpoch) ==
    /\ pc' = [pc EXCEPT ![p] = "guard"]
    /\ loc' = [loc EXCEPT ![p] = [NoLoc EXCEPT !.newEpoch = newEpoch,
                                              !.guard = "pending"]]
    /\ trace' = [trace EXCEPT ![p] = <<>>]

(***************************************************************************)
(* basicMarketMaker.rebalance, mm_basic.go:424-453, one action per atomic  *)
(* operation or collaborator call.                                         *)
(***************************************************************************)
\* a guard that reads the flag and stores it without comparing
GuardNoCompare(p) ==
    /\ pc[p] = "guard"
    /\ rebalanceRunning' = TRUE
    /\ pc' = [pc EXCEPT ![p] = "health"]
    /\ loc' = [loc EXCEPT ![p].guard = "passed"]
    /\ UNCHANGED <<cfg, market, trace, reports, ncalls>>

\* if !m.rebalanceRunning.CompareAndSwap(false, true) { return }
RebalanceGuard(p) ==
    /\ pc[p] = "guard"
    /\ IF rebalanceRunning
       THEN /\ pc' = [pc EXCEPT ![p] = ReturnPc(p)]
            /\ loc' = [loc EXCEPT ![p].guard = "rejected"]
            /\ UNCHANGED rebalanceRunning
       ELSE /\ rebalanceRunning' = TRUE
            /\ pc' = [pc EXCEPT ![p] = "health"]
            /\ loc' = [loc EXCEPT ![p].guard = "passed"]
    /\ UNCHANGED <<cfg, market, trace, reports, ncalls>>

\* a health check whose answer is not acted on
CheckHealthIgnored(p) ==
    /\ pc[p] = "health"
    /\ \E healthy \in BOOLEAN : loc' = [loc EXCEPT ![p].healthy = healthy]
    /\ pc' = [pc EXCEPT ![p] = "plan"]
    /\ trace' = [trace EXCEPT ![p] =
            Append(@, Call("checkBotHealth", loc[p].newEpoch, FALSE, <<>>, 0))]
    /\ UNCHANGED <<cfg, market, rebalanceRunning, reports, ncalls>>

\* if !m.checkBotHealth(newEpoch): the collaborator answers either way
RebalanceCheckHealth(p) ==
    /\ pc[p] = "health"
    /\ \E healthy \in BOOLEAN :
        /\ loc' = [loc EXCEPT ![p].healthy = healthy]
        /\ pc' = [pc EXCEPT ![p] = IF healthy THEN "plan" ELSE "cancelUnhealthy"]
    /\ trace' = [trace EXCEPT ![p] =
            Append(@, Call("checkBotHealth", loc[p].newEpoch, FALSE, <<>>, 0))]
    /\ UNCHANGED <<cfg, market, rebalanceRunning, reports, ncalls>>

\* m.tryCancelOrders(m.ctx, &newEpoch, false); return
RebalanceCancelUnhealthy(p) ==
    /\ pc[p] = "cancelUnhealthy"
    /\ trace' = [trace EXCEPT ![p] =
            Append(@, Call("tryCancelOrders", loc[p].newEpoch, FALSE, <<>>, 0))]
    /\ pc' = [pc EXCEPT ![p] = "release"]
    /\ UNCHANGED <<cfg, market, rebalanceRunning, loc, reports, ncalls>>

\* what the oracle, the fiat sources and the fee queries answer in a cycle
CycleInputs ==
    [oracle : {0, 100}, fiat : {0},
     sellFees : {FeesOK(1)}, buyFees : {FeesErr, FeesOK(2)}]

\* buyOrders, sellOrders, determinePlacementsErr := m.ordersToPlace()
RebalancePlan(p) ==
    /\ pc[p] = "plan"
    /\ \E in \in CycleInputs :
        LET r == ordersToPlace(cfg, market, in)
        IN  /\ loc' = [loc EXCEPT ![p].buyOrders = r.buyOrders,
                                  ![p].sellOrders = r.sellOrders,
                                  ![p].determinePlacementsErr = r.err]
            /\ pc' = [pc EXCEPT ![p] = IF r.err # nil THEN "cancelFailed" ELSE "buy"]
    /\ trace' = [trace EXCEPT ![p] =
            Append(@, Call("ordersToPlace", loc[p].newEpoch, FALSE, <<>>, 0))]
    /\ UNCHANGED <<cfg, market, rebalanceRunning, reports, ncalls>>

\* a failed computation that returns after the cancel, as the unhealthy
\* path does
CancelFailedReturns(p) ==
    /\ pc[p] = "cancelFailed"
    /\ trace' = [trace EXCEPT ![p] =
            Append(@, Call("tryCancelOrders", loc[p].newEpoch, FALSE, <<>>, 0))]
    /\ pc' = [pc EXCEPT ![p] = "release"]
    /\ UNCHANGED <<cfg, market, rebalanceRunning, loc, reports, ncalls>>

\* determinePlacementsErr != nil: m.tryCancelOrders(m.ctx, &newEpoch, false)
RebalanceCancelFailed(p) ==
    /\ pc[p] = "cancelFailed"
    /\ trace' = [trace EXCEPT ![p] =
            Append(@, Call("tryCancelOrders", loc[p].newEpoch, FALSE, <<>>, 0))]
    /\ pc' = [pc EXCEPT ![p] = "report"]
    /\ UNCHANGED <<cfg, market, rebalanceRunning, loc, reports, ncalls>>

\* a first multiTrade that submits the sell side
MultiTradeBuyAsSell(p) ==
    /\ pc[p] = "buy"
    /\ trace' = [trace EXCEPT ![p] =
            Append(@, Call("multiTrade", loc[p].newEpoch, TRUE,
                           loc[p].sellOrders, cfg.DriftTolerance))]
    /\ loc' = [loc EXCEPT ![p].buysReport = OrderReportOf(TRUE, loc[p].newEpoch)]
    /\ pc' = [pc EXCEPT ![p] = "sell"]
    /\ UNCHANGED <<cfg, market, rebalanceRunning, reports, ncalls>>

\* _, buysReport = m.multiTrade(buyOrders, false, m.cfg().DriftTolerance, newEpoch)
RebalanceMultiTradeBuy(p) ==
    /\ pc[p] = "buy"
    /\ trace' = [trace EXCEPT ![p] =
            Append(@, Call("multiTrade", loc[p].newEpoch, FALSE,
                           loc[p].buyOrders, cfg.DriftTolerance))]
    /\ loc' = [loc EXCEPT ![p].buysReport = OrderReportOf(FALSE, loc[p].newEpoch)]
    /\ pc' = [pc EXCEPT ![p] = "sell"]
    /\ UNCHANGED <<cfg, market, rebalanceRunning, reports, ncalls>>

\* _, sellsReport = m.multiTrade(sellOrders, true, m.cfg().DriftTolerance, newEpoch)
RebalanceMultiTradeSell(p) ==
    /\ pc[p] = "sell"
    /\ trace' = [trace EXCEPT ![p] =
            Append(@, Call("multiTrade", loc[p].newEpoch, TRUE,
                           loc[p].sellOrders, cfg.DriftTolerance))]
    /\ loc' = [loc EXCEPT ![p].sellsReport = OrderReportOf(TRUE, loc[p].newEpoch)]
    /\ pc' = [pc EXCEPT ![p] = "report"]
    /\ UNCHANGED <<cfg, market, rebalanceRunning, reports, ncalls>>

\* epochReport := &EpochReport{...}; epochReport.setPreOrderProblems(err);
\* m.updateEpochReport(epochReport)
EpochReportOf(l) ==
    [BuysReport |-> l.buysReport, SellsReport |-> l.sellsReport,
     EpochNum |-> l.newEpoch, PreOrderProblems |-> l.determinePlacementsErr]

\* a report that is published only for an epoch without a problem
ReportOnlySuccess(p) ==
    /\ pc[p] = "report"
    /\ reports' = IF loc[p].determinePlacementsErr = nil
                  THEN Append(reports, EpochReportOf(loc[p]))
                  ELSE reports
    /\ trace' = [trace EXCEPT ![p] =
            Append(@, Call("updateEpochReport", loc[p].newEpoch, FALSE, <<>>, 0))]
    /\ pc' = [pc EXCEPT ![p] = "release"]
    /\ UNCHANGED <<cfg, market, rebalanceRunning, loc, ncalls>>

RebalanceReport(p) ==
    /\ pc[p] = "report"
    /\ reports' = Append(reports, EpochReportOf(loc[p]))
    /\ trace' = [trace EXCEPT ![p] =
            Append(@, Call("updateEpochReport", loc[p].newEpoch, FALSE, <<>>, 0))]
    /\ pc' = [pc EXCEPT ![p] = "release"]
    /\ UNCHANGED <<cfg, market, rebalanceRunning, loc, ncalls>>

\* a return that leaves the flag as it is
ReleaseKeepsFlag(p) ==
    /\ pc[p] = "release"
    /\ pc' = [pc EXCEPT ![p] = ReturnPc(p)]
    /\ UNCHANGED <<cfg, market, rebalanceRunning, loc, trace, reports, ncalls>>

\* defer m.rebalanceRunning.Store(false), run as rebalance returns
\* variant: the flag is cleared at the end of the healthy path only, as it
\* would be without the defer
ReleaseOnHealthyPathOnly(p) ==
    /\ pc[p] = "release"
    /\ rebalanceRunning' = IF loc[p].healthy THEN FALSE ELSE rebalanceRunning
    /\ pc' = [pc EXCEPT ![p] = ReturnPc(p)]
    /\ UNCHANGED <<cfg, market, loc, trace, reports, ncalls>>

RebalanceRelease(p) ==
    /\ pc[p] = "release"
    /\ rebalanceRunning' = FALSE
    /\ pc' = [pc EXCEPT ![p] = ReturnPc(p)]
    /\ UNCHANGED <<cfg, market, loc, trace, reports, ncalls>>

\* the steps of rebalance after the guard
RebalanceBody(p) ==
    \/ RebalanceCheckHealth(p)
    \/ RebalanceCancelUnhealthy(p)
    \/ RebalancePlan(p)
    \/ RebalanceCancelFailed(p)
    \/ RebalanceMultiTradeBuy(p)
    \/ RebalanceMultiTradeSell(p)
    \/ RebalanceReport(p)

(***************************************************************************)
(* basicMarketMaker.botLoop, mm_basic.go:455-494, and the background task  *)
(* it starts.                                                              *)
(***************************************************************************)
Note(kind, epoch) == [kind |-> kind, Current |-> epoch]

\* case *core.ResolvedEpoch of the type switch on ni.Payload
isResolvedEpoch(ni) == ni.kind = "ResolvedEpoch"

\* a receive that takes the newest notification of the channel
RecvNewest(feed) ==
    [ni |-> feed[Len(feed)], rest |-> SubSeq(feed, 1, Len(feed) - 1)]

\* ni, ok := <-bookFeed.Next() on a channel that holds a notification
recv(feed) == [ni |-> Head(feed), rest |-> Tail(feed)]

\* m.core.SyncBook(...) fails and botLoop returns the error, or it succeeds,
\* wg.Add(1) and the task is started
BotLoopStart ==
    /\ pc[Loop] = "start"
    /\ \E ok \in BOOLEAN :
        IF ok
        THEN /\ pc' = [pc EXCEPT ![Loop] = "select"]
             /\ wgCount' = wgCount + 1
        ELSE /\ pc' = [pc EXCEPT ![Loop] = "failed"]
             /\ UNCHANGED wgCount
    /\ UNCHANGED <<cfg, market, rebalanceRunning, loc, trace, reports, ncalls>>
    /\ UNCHANGED <<bookFeed, feedOpen, sent, received, started, finished,
                   ctxDone, killCalls, feedCloseCalls, exitVia, cancelledDuring>>

\* case ni, ok := <-bookFeed.Next() with ok: a resolved epoch is rebalanced,
\* any other payload is dropped
LoopRecv ==
    /\ pc[Loop] = "select"
    /\ bookFeed # <<>>
    /\ LET r == recv(bookFeed)
       IN  /\ bookFeed' = r.rest
           /\ received' = Append(received, r.ni)
           /\ IF isResolvedEpoch(r.ni)
              THEN /\ Invoke(Loop, r.ni.Current)
                   /\ started' = Append(started, r.ni.Current)
              ELSE UNCHANGED <<pc, loc, trace, started>>
    /\ UNCHANGED <<cfg, market, rebalanceRunning, reports, ncalls>>
    /\ UNCHANGED <<feedOpen, sent, finished, ctxDone, killCalls,
                   feedCloseCalls, wgCount, exitVia, cancelledDuring>>

\* the loop's rebalance call passes or fails the guard; a rejected call
\* has returned to the loop
LoopGuard ==
    /\ RebalanceGuard(Loop)
    /\ finished' = IF pc'[Loop] = "select"
                   THEN Append(finished, Returned(loc'[Loop]))
                   ELSE finished
    /\ UNCHANGED <<bookFeed, feedOpen, sent, received, started,
                   ctxDone, killCalls, feedCloseCalls, wgCount, exitVia, cancelledDuring>>

LoopRebalance ==
    /\ RebalanceBody(Loop)
    /\ UNCHANGED feedVars

\* rebalance returns to the loop, which selects again
LoopRelease ==
    /\ RebalanceRelease(Loop)
    /\ finished' = Append(finished, Returned(loc[Loop]))
    /\ UNCHANGED <<bookFeed, feedOpen, sent, received, started,
                   ctxDone, killCalls, feedCloseCalls, wgCount, exitVia, cancelledDuring>>

\* case ni, ok := <-bookFeed.Next() with !ok, the channel closed and
\* drained: m.kill(); return
LoopFeedClosed ==
    /\ pc[Loop] = "select"
    /\ bookFeed = <<>>
    /\ ~feedOpen
    /\ killCalls' = killCalls + 1
    /\ exitVia' = "feed"
    /\ pc' = [pc EXCEPT ![Loop] = "deferClose"]
    /\ UNCHANGED <<cfg, market, rebalanceRunning, loc, trace, reports, ncalls>>
    /\ UNCHANGED <<bookFeed, feedOpen, sent, received, started, finished,
                   ctxDone, feedCloseCalls, wgCount, cancelledDuring>>

\* a cancellation that also asks to stop the bot
CtxDoneKills ==
    /\ pc[Loop] = "select"
    /\ ctxDone
    /\ killCalls' = killCalls + 1
    /\ exitVia' = "ctx"
    /\ pc' = [pc EXCEPT ![Loop] = "deferClose"]
    /\ UNCHANGED <<cfg, market, rebalanceRunning, loc, trace, reports, ncalls>>
    /\ UNCHANGED <<bookFeed, feedOpen, sent, received, started, finished,
                   ctxDone, feedCloseCalls, wgCount, cancelledDuring>>

\* a cancellation that is acted on while rebalance has not returned
CtxDoneAbandons ==
    /\ pc[Loop] \in {"select"} \cup InRebalance
    /\ ctxDone
    /\ exitVia' = "ctx"
    /\ pc' = [pc EXCEPT ![Loop] = "deferClose"]
    /\ UNCHANGED <<cfg, market, rebalanceRunning, loc, trace, reports, ncalls>>
    /\ UNCHANGED <<bookFeed, feedOpen, sent, received, started, finished,
                   ctxDone, killCalls, feedCloseCalls, wgCount, cancelledDuring>>

\* case <-ctx.Done(): return
LoopCtxDone ==
    /\ pc[Loop] = "select"
    /\ ctxDone
    /\ exitVia' = "ctx"
    /\ pc' = [pc EXCEPT ![Loop] = "deferClose"]
    /\ UNCHANGED <<cfg, market, rebalanceRunning, loc, trace, reports, ncalls>>
    /\ UNCHANGED <<bookFeed, feedOpen, sent, received, started, finished,
                   ctxDone, killCalls, feedCloseCalls, wgCount, cancelledDuring>>

\* defer bookFeed.Close()
LoopDeferClose ==
    /\ pc[Loop] = "deferClose"
    /\ feedCloseCalls' = feedCloseCalls + 1
    /\ pc' = [pc EXCEPT ![Loop] = "deferDone"]
    /\ UNCHANGED <<cfg, market, rebalanceRunning, loc, trace, reports, ncalls>>
    /\ UNCHANGED <<bookFeed, feedOpen, sent, received, started, finished,
                   ctxDone, killCalls, wgCount, exitVia, cancelledDuring>>

\* defer wg.Done()
LoopDeferDone ==
    /\ pc[Loop] = "deferDone"
    /\ wgCount' = wgCount - 1
    /\ pc' = [pc EXCEPT ![Loop] = "done"]
    /\ UNCHANGED <<cfg, market, rebalanceRunning, loc, trace, reports, ncalls>>
    /\ UNCHANGED <<bookFeed, feedOpen, sent, received, started, finished,
                   ctxDone, killCalls, feedCloseCalls, exitVia, cancelledDuring>>

\* every step of the background task
LoopStep ==
    \/ LoopRecv
    \/ LoopGuard
    \/ LoopRebalance
    \/ LoopRelease
    \/ LoopFeedClosed
    \/ LoopCtxDone
    \/ LoopDeferClose
    \/ LoopDeferDone

(***************************************************************************)
(* The environment of the loop: the sender of the book feed and the owner  *)
(* of the context.                                                         *)
(***************************************************************************)
EpochsSent == Len(SelectSeq(sent, isResolvedEpoch))
OthersSent == Len(sent) - EpochsSent

FeedLive == pc[Loop] \notin {"start", "failed"} /\ feedOpen /\ feedCloseCalls = 0

\* the feed delivers the next resolved epoch, of at most maxEpoch
FeedResolvedEpoch(maxEpoch) ==
    /\ FeedLive
    /\ Len(bookFeed) < MaxFeed
    /\ EpochsSent < maxEpoch
    /\ bookFeed' = Append(bookFeed, Note("ResolvedEpoch", EpochsSent + 1))
    /\ sent' = Append(sent, Note("ResolvedEpoch", EpochsSent + 1))
    /\ UNCHANGED botVars
    /\ UNCHANGED <<feedOpen, received, started, finished, ctxDone,
                   killCalls, feedCloseCalls, wgCount, exitVia, cancelledDuring>>

\* the feed delivers a notification with another payload
FeedOther ==
    /\ FeedLive
    /\ Len(bookFeed) < MaxFeed
    /\ OthersSent < MaxOther
    /\ bookFeed' = Append(bookFeed, Note("other", 0))
    /\ sent' = Append(sent, Note("other", 0))
    /\ UNCHANGED botVars
    /\ UNCHANGED <<feedOpen, received, started, finished, ctxDone,
                   killCalls, feedCloseCalls, wgCount, exitVia, cancelledDuring>>

\* the sender closes the channel of the feed
FeedCloses ==
    /\ FeedLive
    /\ feedOpen' = FALSE
    /\ UNCHANGED botVars
    /\ UNCHANGED <<bookFeed, sent, received, started, finished, ctxDone,
                   killCalls, feedCloseCalls, wgCount, exitVia, cancelledDuring>>

\* the owner of the context cancels it
CtxCancel ==
    /\ pc[Loop] \notin {"start", "failed"}
    /\ ~ctxDone
    /\ ctxDone' = TRUE
    /\ cancelledDuring' = IF pc[Loop] \in InRebalance THEN loc[Loop].newEpoch ELSE 0
    /\ UNCHANGED botVars
    /\ UNCHANGED <<bookFeed, feedOpen, sent, received, started, finished,
                   killCalls, feedCloseCalls, wgCount, exitVia>>

(***************************************************************************)
(* Tasks that call rebalance directly, concurrently with one another.      *)
(***************************************************************************)
DirectCall(p) ==
    /\ pc[p] = "idle"
    /\ ncalls < MaxCalls
    /\ Invoke(p, ncalls + 1)
    /\ ncalls' = ncalls + 1
    /\ UNCHANGED <<cfg, market, rebalanceRunning, reports>>
    /\ UNCHANGED feedVars

DirectGuard(p) == RebalanceGuard(p) /\ UNCHANGED feedVars
DirectRebalance(p) == RebalanceBody(p) /\ UNCHANGED feedVars
DirectRelease(p) == RebalanceRelease(p) /\ UNCHANGED feedVars

(***************************************************************************)
(* The calculator harness: one evaluation of basisPrice on drawn inputs.   *)
(***************************************************************************)
NoIn == [oracle |-> 0, fiat |-> 0, rateStep |-> 1]
NoOut == [op |-> "none", bp |-> 0, err |-> nil]

CalcBasisPrice ==
    /\ calcOut.op = "none"
    /\ LET r == basisPrice(calcIn.oracle, calcIn.fiat, calcIn.rateStep)
       IN  calcOut' = [op |-> "basisPrice", bp |-> r.bp, err |-> r.err]
    /\ UNCHANGED calcIn

(***************************************************************************)
(* One evaluation of orderPrice on drawn inputs.  The basis price is a     *)
(* result of basisPrice: a positive multiple of the rate step.  The gap    *)
(* factor is one validate accepts for the strategy.                        *)
(***************************************************************************)
Strategies == {GapStrategyMultiplier, GapStrategyAbsolute,
               GapStrategyAbsolutePlus, GapStrategyPercent,
               GapStrategyPercentPlus}

\* gap factors 0, 0.01, 0.05, 0.1, 1, 1.5, 2
GapFactors == {0, 10, 50, 100, 1000, 1500, 2000}

BasisPrices(rateStep) ==
    {k * rateStep : k \in 1..MaxBasisSteps}
        \cup {b \in {500000, 1000000} : b % rateStep = 0}

PriceInputs ==
    {in \in [strat : Strategies,
             mkt : [rateStep : 1..MaxStep, lotSize : {10}, rateConv : {100}],
             bp : UNION {BasisPrices(st) : st \in 1..MaxStep},
             feeAdj : 0..MaxFeeAdj,
             sell : BOOLEAN,
             gapFactor : GapFactors] :
        /\ in.bp \in BasisPrices(in.mkt.rateStep)
        /\ gapFactorInBounds(in.strat, in.gapFactor)}

CalcOrderPrice ==
    /\ calcOut.op = "none"
    /\ calcOut' = [op |-> "orderPrice",
                   rate |-> orderPrice(calcIn.strat, calcIn.mkt, calcIn.bp,
                                       calcIn.feeAdj, calcIn.sell,
                                       calcIn.gapFactor)]
    /\ UNCHANGED calcIn

(***************************************************************************)
(* One evaluation of feeGapStats or of halfSpread on drawn inputs: the     *)
(* basis price passed, what the two OrderFeesInUnits queries answer, and   *)
(* the lot size and the rate step of the calculator's market.              *)
(***************************************************************************)
FeeAnswers == {FeesErr} \cup {FeesOK(u) : u \in 0..MaxFees}

FeeInputs ==
    [bp : 0..MaxRate, sellFees : FeeAnswers, buyFees : FeeAnswers,
     lotSize : 1..MaxLotSize, rateStep : 1..MaxStep]

CalcFeeGapStats ==
    /\ calcOut.op = "none"
    /\ LET r == feeGapStats(calcIn.bp, calcIn.sellFees, calcIn.buyFees,
                            calcIn.lotSize)
       IN  calcOut' = [op |-> "feeGapStats", stats |-> r.stats,
                       err |-> r.err, queries |-> r.queries]
    /\ UNCHANGED calcIn

CalcHalfSpread ==
    /\ calcOut.op = "none"
    /\ LET r == halfSpread(calcIn.bp, calcIn.sellFees, calcIn.buyFees,
                           calcIn.lotSize)
       IN  calcOut' = [op |-> "halfSpread", halfGap |-> r.halfGap,
                       err |-> r.err, queries |-> r.queries]
    /\ UNCHANGED calcIn

(***************************************************************************)
(* One evaluation of ordersToPlace on drawn inputs: a config that validate *)
(* accepts, a market, and what the oracle, the fiat sources and the two    *)
(* fee queries answer.                                                     *)
(***************************************************************************)
PlanLadders ==
    { <<>>,
      <<[Lots |-> 1, GapFactor |-> 10]>>,
      <<[Lots |-> 0, GapFactor |-> 10]>>,
      <<[Lots |-> 2, GapFactor |-> 0], [Lots |-> 1, GapFactor |-> 100]>>,
      <<[Lots |-> 1, GapFactor |-> 1000], [Lots |-> 3, GapFactor |-> 2000]>>,
      <<[Lots |-> 2, GapFactor |-> 2000], [Lots |-> 1, GapFactor |-> 0],
        [Lots |-> 3, GapFactor |-> 1500]>> }

PlanConfigs ==
    {c \in [GapStrategy : Strategies, SellPlacements : PlanLadders,
            BuyPlacements : PlanLadders,
            DriftTolerance : {DefaultDriftTolerance}] :
        validate(c).err = nil}

PlanInputs ==
    [c : PlanConfigs,
     mkt : [rateStep : 1..MaxStep, lotSize : {10}, rateConv : {100}],
     in : [oracle : (0..MaxBasisSteps) \cup {500000}, fiat : {0},
           sellFees : {FeesErr, FeesOK(1)}, buyFees : FeeAnswers]]

CalcOrdersToPlace ==
    /\ calcOut.op = "none"
    /\ LET r == ordersToPlace(calcIn.c, calcIn.mkt, calcIn.in)
       IN  calcOut' = [op |-> "ordersToPlace", buyOrders |-> r.buyOrders,
                       sellOrders |-> r.sellOrders, err |-> r.err,
                       feeGap |-> r.feeGap, registered |-> r.registered]
    /\ UNCHANGED calcIn

(***************************************************************************)
(* One evaluation of validate or of newBasicMarketMaker on a drawn config: *)
(* any strategy name, drift tolerances around the limits 0 and 0.01, and   *)
(* ladders of gap factors around the limits of the strategy.               *)
(***************************************************************************)
StrategyNames == Strategies \cup {"unknown"}

\* -0.0001, 0, 0.01, 0.0101
DriftTolerances == {-1, 0, MaxDriftTolerance, MaxDriftTolerance + 1}

LimitGapFactors(strat) ==
    CASE strat = GapStrategyMultiplier ->
            {GapDenom - 1, GapDenom, 100 * GapDenom, 100 * GapDenom + 1}
      [] strat \in {GapStrategyPercent, GapStrategyPercentPlus} ->
            {-1, 0, GapDenom \div 10, GapDenom \div 10 + 1}
      [] strat \in {GapStrategyAbsolute, GapStrategyAbsolutePlus} ->
            {-1, 0, 100 * GapDenom + 1}
      [] OTHER -> {0, GapDenom}

Ladders(strat) ==
    UNION {[1..n -> [Lots : {1}, GapFactor : LimitGapFactors(strat)]] :
                n \in 0..MaxLadder}

ValidateConfigs ==
    UNION {[GapStrategy : {strat}, SellPlacements : Ladders(strat),
            BuyPlacements : Ladders(strat),
            DriftTolerance : DriftTolerances] : strat \in StrategyNames}

ValidateInputs == [c : ValidateConfigs, hasCfg : BOOLEAN, adaptorErr : BOOLEAN]

CalcValidate ==
    /\ calcOut.op = "none"
    /\ calcIn.hasCfg
    /\ LET v == validate(calcIn.c)
       IN  calcOut' = [op |-> "validate", err |-> v.err, cfg |-> v.cfg,
                       bot |-> FALSE]
    /\ UNCHANGED calcIn

CalcNewBasicMarketMaker ==
    /\ calcOut.op = "none"
    /\ LET r == newBasicMarketMaker(calcIn.hasCfg, calcIn.adaptorErr, calcIn.c)
       IN  calcOut' = [op |-> "newBasicMarketMaker", err |-> r.err,
                       cfg |-> r.cfg, bot |-> r.bot]
    /\ UNCHANGED calcIn

(***************************************************************************)
(* One evaluation of updateLotSize on drawn inputs: a ladder of placements *)
(* of distinct gap factors, and the lot size before and after the change.  *)
(***************************************************************************)
LotLadders ==
    UNION {{[i \in 1..n |-> [Lots |-> lots[i], GapFactor |-> 10 * i]] :
                lots \in [1..n -> 0..MaxLots]} : n \in 0..(MaxLadder + 1)}

LotSizes == 1..(2 * MaxLotSize)

LotSizeInputs ==
    [placements : LotLadders, originalLotSize : LotSizes, newLotSize : LotSizes]

CalcUpdateLotSize ==
    /\ calcOut.op = "none"
    /\ calcOut' = [op |-> "updateLotSize",
                   placements |-> updateLotSize(calcIn.placements,
                                                calcIn.originalLotSize,
                                                calcIn.newLotSize)]
    /\ UNCHANGED calcIn

(***************************************************************************)
(* The dexAccount, core/types.go:810-1025.                                 *)
(*                                                                         *)
(* Values.  A private key is one of Keys, or noKey for a nil *PrivateKey.  *)
(* The encrypted key blob of a key k is EncOf(k); NoEncKey is the empty    *)
(* blob, TornEncKey a blob read while it was being written.  The account   *)
(* ID of a key is IDOf(k); ZeroID is the zero AccountID.                   *)
(***************************************************************************)
\* a uint32, kept as its top bit and its low 31 bits: its value is
\* 2^31 * (IF hard THEN 1 ELSE 0) + low
U32(hard, low) == [hard |-> hard, low |-> low]

\* hdkeychain.HardenedKeyStart, 2^31
HardenedKeyStart == U32(TRUE, 0)

\* x >= hdkeychain.HardenedKeyStart
IsHardened(x) == x.hard

\* hdKeyPurposeAccts = hdkeychain.HardenedKeyStart + 0x646578
hdKeyPurposeAccts == U32(TRUE, 6579576)

\* binary.LittleEndian.Uint32 of the four bytes b[i] .. b[i+3]
LittleEndianUint32(b, i) ==
    U32(b[i + 3] >= 128,
        b[i] + 256 * b[i + 1] + 65536 * b[i + 2]
             + 16777216 * (b[i + 3] % 128))

\* the child indices before hardening: purpose, first byte of the
\* exchange's public key, the eight words of its other 32 bytes (byteSeq
\* is dexPkB[1:], so word w starts at byte 2 + 4 * w counting from 1),
\* and the key index
ChildIndices(dexPkB, keyIndex) ==
    <<hdKeyPurposeAccts, U32(FALSE, dexPkB[1])>>
        \o [w \in 1..8 |-> LittleEndianUint32(dexPkB, 2 + 4 * (w - 1))]
        \o <<keyIndex>>

\* an index left as it is
Unhardened(x) == x

\* kids[i] % hdkeychain.HardenedKeyStart + hdkeychain.HardenedKeyStart
Harden(x) == U32(TRUE, x.low)

\* the chain of hardened child indices
DerivationPath(dexPkB, keyIndex) ==
    LET kids == ChildIndices(dexPkB, keyIndex)
    IN  [i \in DOMAIN kids |-> Harden(kids[i])]

\* keygen.GenDeepChild, defined outside core/types.go: the extended key at
\* the end of the chain of children of the seed's master key
GenDeepChild(seed, kids) == <<"key", seed, kids>>

\* account.NewID of the public key of a private key
NewID(priv) == <<"id", priv>>

\* what setupCryptoV2 derives from the decrypted seed, the exchange's
\* public key and the key index
deriveKey(seed, dexPkB, keyIndex) ==
    LET kids == DerivationPath(dexPkB, keyIndex)
        priv == GenDeepChild(seed, kids)
    IN  [kids |-> kids, privKey |-> priv, id |-> NewID(priv)]

Keys == {"keyA", "keyB"}
noKey == "noKey"

EncOf(k) == <<"enc", k>>
NoEncKey == <<>>
TornEncKey == <<"torn">>

\* account.NewID of the key's serialized public key
IDOf(k) == <<"id", k>>
ZeroID == <<"id", noKey>>

\* crypter.Decrypt is defined outside core/types.go: it returns the key a
\* blob was made from, and fails for a blob that no Encrypt made or when
\* the crypter is not the one that made it
Decrypt(crypterOK, blob) ==
    IF crypterOK /\ \E k \in Keys : blob = EncOf(k)
    THEN [ok |-> TRUE, key |-> blob[2]]
    ELSE [ok |-> FALSE, key |-> noKey]

\* account.Reputation.EffectiveTier is defined outside core/types.go
EffectiveTier(r) == r.effectiveTier

\* the tasks that call the account's methods
AcctProcs == {"a1", "a2"}

\* a sync.RWMutex that nobody holds
FreeMtx == [writer |-> "none", readers |-> {}]

CanRLock(m) == m.writer = "none"
CanLock(m) == m.writer = "none" /\ m.readers = {}
RLocked(m, t) == [m EXCEPT !.readers = @ \cup {t}]
RUnlocked(m, t) == [m EXCEPT !.readers = @ \ {t}]
Locked(m, t) == [m EXCEPT !.writer = t]
Unlocked(m, t) == [m EXCEPT !.writer = "none"]
Holds(m, t) == m.writer = t \/ t \in m.readers

\* no call, no local, nothing returned
\* the bond lists and the tier settings of a new account, which no method of
\* dexAccount assigns
NewBonding ==
    [pendingBonds |-> <<>>, bonds |-> <<>>, expiredBonds |-> <<>>,
     targetTier |-> 1, maxBondedAmt |-> 0, penaltyComps |-> 0, bondAsset |-> 0]

NoCall == [op |-> "none", keyIndex |-> U32(FALSE, 0), fail |-> "none",
           crypterOK |-> FALSE, disable |-> FALSE, tier |-> 0]
NoTmp == [encKey |-> NoEncKey, privKey |-> noKey, id |-> ZeroID]
NoRet == [op |-> "none", task |-> "none", err |-> nil, key |-> noKey,
          seen |-> noKey,
          id |-> ZeroID, flag |-> FALSE, flag2 |-> FALSE]
NoSnap == [taken |-> FALSE, wasUnlocked |-> FALSE, encKey |-> NoEncKey,
           id |-> ZeroID, pending |-> {}]

errAccountLocked == "account locked"
errDecrypt == "decryption error"
errMaxKeyIndex == "maximum key generation reached"
errSeedDecrypt == "seed decryption error"
errGenDeepChild == "GenDeepChild error"
errSerializedPrivKey == "SerializedPrivKey error"
errKeyEncrypt == "key Encrypt error"

\* the key setupCryptoV2 derives for a key index (keygen.GenDeepChild is
\* defined outside core/types.go; the seed and the exchange's public key
\* are fixed)
KeyAt(keyIndex) == IF keyIndex.low = 0 THEN "keyA" ELSE "keyB"

\* the step of setupCryptoV2 that fails, and the error it then returns
SetupFailures == {"none", "seed", "child", "serialize", "encrypt"}

\* a failed encryption of the new key that is not reported
SetupErrorIgnoresEncrypt(fail) ==
    CASE fail = "seed" -> errSeedDecrypt
      [] fail = "child" -> errGenDeepChild
      [] fail = "serialize" -> errSerializedPrivKey
      [] OTHER -> nil

SetupError(fail) ==
    CASE fail = "seed" -> errSeedDecrypt
      [] fail = "child" -> errGenDeepChild
      [] fail = "serialize" -> errSerializedPrivKey
      [] fail = "encrypt" -> errKeyEncrypt
      [] OTHER -> nil

KeyReaders == {"ID", "isViewOnly", "status", "locked", "pubKey", "sign"}
AuthReaders == {"isDisabled", "authed", "suspended"}
AuthWriters == {"toggleAccountStatus", "unAuth", "authDEX"}

\* the calls a task can make, with their arguments
AcctCalls ==
    {[NoCall EXCEPT !.op = o] :
        o \in KeyReaders \cup AuthReaders \cup {"lock", "unAuth"}}
    \cup {[NoCall EXCEPT !.op = "setupCryptoV2"]}
    \cup {[NoCall EXCEPT !.op = "setupCryptoV2", !.keyIndex = U32(FALSE, 1),
                         !.fail = f] :
            f \in SetupFailures}
    \cup {[NoCall EXCEPT !.op = "setupCryptoV2",
                         !.keyIndex = HardenedKeyStart]}
    \cup {[NoCall EXCEPT !.op = "unlock", !.crypterOK = b] : b \in BOOLEAN}
    \cup {[NoCall EXCEPT !.op = "toggleAccountStatus", !.disable = b] :
            b \in BOOLEAN}
    \cup {[NoCall EXCEPT !.op = "authDEX", !.tier = n] : n \in {0, 1}}

\* the writers of the account
Mutators ==
    {"setupCryptoV2", "unlock", "lock", "unAuth", "toggleAccountStatus"}

\* the calls of a task: a1 calls any method, a2 is a task that changes the
\* account while a1 runs
AcctCallsOf(t) ==
    IF t = "a1" THEN AcctCalls ELSE {c \in AcctCalls : c.op \in Mutators}

\* the first position of a call
EntryPc(op) ==
    CASE op \in KeyReaders \cup AuthReaders -> "rlock"
      [] op \in AuthWriters \cup {"lock"} -> "wlock"
      [] op = "unlock" -> "decrypt"
      [] op = "setupCryptoV2" -> "derive"

At(t, op, l) == acall[t].op = op /\ apc[t] = l
\* task t moves on to position l of its call: no call has just returned
Goto(t, l) == apc' = [apc EXCEPT ![t] = l] /\ aret' = NoRet

\* the call of task t returns r
Finish(t, r) ==
    /\ apc' = [apc EXCEPT ![t] = "idle"]
    /\ aret' = [r EXCEPT !.task = t]
    /\ acall' = [acall EXCEPT ![t] = NoCall]
    /\ atmp' = [atmp EXCEPT ![t] = NoTmp]

Ret(op) == [NoRet EXCEPT !.op = op]

\* task t reads (or writes) key group fields in this step: the access is
\* recorded when t does not hold keyMtx (for a write: not for writing)
Touch(t, op, fields, write) ==
    unguarded' =
        IF (write /\ keyMtx.writer = t) \/ (~write /\ Holds(keyMtx, t))
        THEN {}
        ELSE {[op |-> op, field |-> f, write |-> write] : f \in fields}

\* a task starts a call
AcctCall(t) ==
    /\ apc[t] = "idle"
    /\ adone[t] < MaxAcctOps
    /\ \E c \in AcctCallsOf(t) :
        /\ acall' = [acall EXCEPT ![t] = c]
        /\ apc' = [apc EXCEPT ![t] = EntryPc(c.op)]
    /\ adone' = [adone EXCEPT ![t] = @ + 1]
    /\ aret' = NoRet
    /\ unguarded' = {}
    /\ UNCHANGED <<keyGroup, keyMtx, authGroup, authMtx, atmp, lockSnap>>

\* a.keyMtx.RLock()
KeyRLock(t, op) ==
    /\ At(t, op, "rlock")
    /\ CanRLock(keyMtx)
    /\ keyMtx' = RLocked(keyMtx, t)
    /\ Goto(t, "read")
    /\ unguarded' = {}
    /\ UNCHANGED <<keyGroup, authGroup, authMtx, acall, atmp, adone,
                   lockSnap>>

\* the read of a key group accessor and its deferred a.keyMtx.RUnlock()
KeyRead(t, op, fields, r) ==
    /\ At(t, op, "read")
    /\ Touch(t, op, fields, FALSE)
    /\ Finish(t, r)
    /\ keyMtx' = RUnlocked(keyMtx, t)
    /\ UNCHANGED <<keyGroup, authGroup, authMtx, adone, lockSnap>>

\* the read lock of the auth group taken together with the key lock
AuthRLockWithKeyLock(t, op) ==
    /\ At(t, op, "rlock")
    /\ CanRLock(authMtx)
    /\ CanRLock(keyMtx)
    /\ authMtx' = RLocked(authMtx, t)
    /\ keyMtx' = RLocked(keyMtx, t)
    /\ Goto(t, "read")
    /\ unguarded' = {}
    /\ UNCHANGED <<keyGroup, authGroup, acall, atmp, adone, lockSnap>>

\* a.authMtx.RLock()
AuthRLock(t, op) ==
    /\ At(t, op, "rlock")
    /\ CanRLock(authMtx)
    /\ authMtx' = RLocked(authMtx, t)
    /\ Goto(t, "read")
    /\ unguarded' = {}
    /\ UNCHANGED <<keyGroup, keyMtx, authGroup, acall, atmp, adone,
                   lockSnap>>

\* the read of an auth group accessor and its deferred a.authMtx.RUnlock()
AuthRead(t, op, r) ==
    /\ At(t, op, "read")
    /\ Finish(t, r)
    /\ authMtx' = RUnlocked(authMtx, t)
    /\ unguarded' = {}
    /\ UNCHANGED <<keyGroup, keyMtx, authGroup, adone, lockSnap>>

\* a.authMtx.Lock()
AuthLock(t, op) ==
    /\ At(t, op, "wlock")
    /\ CanLock(authMtx)
    /\ authMtx' = Locked(authMtx, t)
    /\ Goto(t, "write")
    /\ unguarded' = {}
    /\ UNCHANGED <<keyGroup, keyMtx, authGroup, acall, atmp, adone,
                   lockSnap>>

\* a.keyMtx.Lock(), on the way to position l
\* variant: the writers enter their critical section without taking keyMtx
KeyLockSkipped(t, op, l) ==
    /\ At(t, op, "wlock")
    /\ Goto(t, l)
    /\ unguarded' = {}
    /\ UNCHANGED <<keyGroup, keyMtx, authGroup, authMtx, acall, atmp, adone,
                   lockSnap>>

KeyLock(t, op, l) ==
    /\ At(t, op, "wlock")
    /\ CanLock(keyMtx)
    /\ keyMtx' = Locked(keyMtx, t)
    /\ Goto(t, l)
    /\ unguarded' = {}
    /\ UNCHANGED <<keyGroup, authGroup, authMtx, acall, atmp, adone,
                   lockSnap>>

\* core/types.go:851-856
ID(t) ==
    \/ KeyRLock(t, "ID")
    \/ KeyRead(t, "ID", {"id"}, [Ret("ID") EXCEPT !.id = id])

\* core/types.go:858-863
isViewOnly(t) ==
    \/ KeyRLock(t, "isViewOnly")
    \/ KeyRead(t, "isViewOnly", {"viewOnly"},
               [Ret("isViewOnly") EXCEPT !.flag = viewOnly])

\* core/types.go:865-935.  Everything up to the critical section works on
\* the arguments and on locals; each failure returns from there.
setupCryptoV2(t) ==
    \/ /\ At(t, "setupCryptoV2", "derive")
       /\ LET c == acall[t]
              err == IF IsHardened(c.keyIndex) THEN errMaxKeyIndex
                     ELSE SetupError(c.fail)
              k == KeyAt(c.keyIndex)
          IN  IF err # nil
              THEN Finish(t, [Ret("setupCryptoV2") EXCEPT !.err = err])
              ELSE /\ atmp' = [atmp EXCEPT ![t] =
                                [encKey |-> EncOf(k), privKey |-> k,
                                 id |-> IDOf(k)]]
                   /\ Goto(t, "wlock")
                   /\ UNCHANGED acall
       /\ unguarded' = {}
       /\ UNCHANGED <<keyGroup, keyMtx, authGroup, authMtx, adone, lockSnap>>
    \/ KeyLock(t, "setupCryptoV2", "wEncKey")
    \/ /\ At(t, "setupCryptoV2", "wEncKey")
       /\ encKey' = atmp[t].encKey
       /\ Touch(t, "setupCryptoV2", {"encKey"}, TRUE)
       /\ Goto(t, "wPrivKey")
       /\ lockSnap' = NoSnap
       /\ UNCHANGED <<privKey, id, viewOnly, keyMtx, authGroup, authMtx,
                      acall, atmp, adone>>
    \/ /\ At(t, "setupCryptoV2", "wPrivKey")
       /\ privKey' = atmp[t].privKey
       /\ Touch(t, "setupCryptoV2", {"privKey"}, TRUE)
       /\ Goto(t, "wId")
       /\ UNCHANGED <<encKey, id, viewOnly, keyMtx, authGroup, authMtx,
                      acall, atmp, adone, lockSnap>>
    \/ /\ At(t, "setupCryptoV2", "wId")
       /\ id' = atmp[t].id
       /\ Touch(t, "setupCryptoV2", {"id"}, TRUE)
       /\ keyMtx' = Unlocked(keyMtx, t)
       /\ Finish(t, Ret("setupCryptoV2"))
       /\ UNCHANGED <<encKey, privKey, viewOnly, authGroup, authMtx, adone,
                      lockSnap>>

\* what a read of a.encKey can return: the field, or, when the read runs
\* together with the write of setupCryptoV2, the value being written or a
\* mix of the two slice headers
EncKeyRead ==
    {encKey} \cup
        UNION {{atmp[u].encKey, TornEncKey} :
                    u \in {v \in AcctProcs : At(v, "setupCryptoV2", "wEncKey")}}

\* an unlock that installs the key and the ID without taking keyMtx
UnlockWithoutMutex(t) ==
    \/ /\ At(t, "unlock", "decrypt")
       /\ Touch(t, "unlock", {"encKey"}, FALSE)
       /\ \E blob \in EncKeyRead :
            LET d == Decrypt(acall[t].crypterOK, blob)
            IN  IF ~d.ok
                THEN Finish(t, [Ret("unlock") EXCEPT !.err = errDecrypt])
                ELSE /\ atmp' = [atmp EXCEPT ![t] =
                                    [encKey |-> blob, privKey |-> d.key,
                                     id |-> IDOf(d.key)]]
                     /\ Goto(t, "wlock")
                     /\ UNCHANGED acall
       /\ UNCHANGED <<keyGroup, keyMtx, authGroup, authMtx, adone, lockSnap>>
    \/ /\ At(t, "unlock", "wlock")
       /\ Goto(t, "wPrivKey")
       /\ unguarded' = {}
       /\ UNCHANGED <<keyGroup, keyMtx, authGroup, authMtx, acall, atmp, adone,
                      lockSnap>>
    \/ /\ At(t, "unlock", "wPrivKey")
       /\ privKey' = atmp[t].privKey
       /\ Touch(t, "unlock", {"privKey"}, TRUE)
       /\ Goto(t, "wId")
       /\ UNCHANGED <<encKey, id, viewOnly, keyMtx, authGroup, authMtx,
                      acall, atmp, adone, lockSnap>>
    \/ /\ At(t, "unlock", "wId")
       /\ id' = atmp[t].id
       /\ Touch(t, "unlock", {"id"}, TRUE)
       /\ Finish(t, [Ret("unlock") EXCEPT !.id = atmp[t].id])
       /\ UNCHANGED <<encKey, privKey, viewOnly, keyMtx, authGroup, authMtx,
                      adone, lockSnap>>

\* core/types.go:937-950.  The read of a.encKey at line 939 is made before
\* the lock is taken.
unlock(t) ==
    \/ /\ At(t, "unlock", "decrypt")
       /\ Touch(t, "unlock", {"encKey"}, FALSE)
       /\ \E blob \in EncKeyRead :
            LET d == Decrypt(acall[t].crypterOK, blob)
            IN  IF ~d.ok
                THEN Finish(t, [Ret("unlock") EXCEPT !.err = errDecrypt])
                ELSE /\ atmp' = [atmp EXCEPT ![t] =
                                    [encKey |-> blob, privKey |-> d.key,
                                     id |-> IDOf(d.key)]]
                     /\ Goto(t, "wlock")
                     /\ UNCHANGED acall
       /\ UNCHANGED <<keyGroup, keyMtx, authGroup, authMtx, adone, lockSnap>>
    \/ KeyLock(t, "unlock", "wPrivKey")
    \/ /\ At(t, "unlock", "wPrivKey")
       /\ privKey' = atmp[t].privKey
       /\ Touch(t, "unlock", {"privKey"}, TRUE)
       /\ Goto(t, "wId")
       /\ UNCHANGED <<encKey, id, viewOnly, keyMtx, authGroup, authMtx,
                      acall, atmp, adone, lockSnap>>
    \/ /\ At(t, "unlock", "wId")
       /\ id' = atmp[t].id
       /\ Touch(t, "unlock", {"id"}, TRUE)
       /\ keyMtx' = Unlocked(keyMtx, t)
       /\ Finish(t, [Ret("unlock") EXCEPT !.id = atmp[t].id])
       /\ UNCHANGED <<encKey, privKey, viewOnly, authGroup, authMtx, adone,
                      lockSnap>>

\* a lock that clears the key without taking keyMtx
LockWithoutMutex(t) ==
    /\ At(t, "lock", "wlock")
    /\ privKey' = noKey
    /\ Touch(t, "lock", {"privKey"}, TRUE)
    /\ lockSnap' = [taken |-> TRUE, wasUnlocked |-> privKey # noKey,
                    encKey |-> encKey, id |-> id,
                    pending |-> {u \in AcctProcs : acall[u].op = "unlock"}]
    /\ Finish(t, Ret("lock"))
    /\ UNCHANGED <<encKey, id, viewOnly, keyMtx, authGroup, authMtx, adone>>

\* core/types.go:952-957
\* variant: locking the account also marks it as not authenticated
LockClearsAuth(t) ==
    \/ KeyLock(t, "lock", "write")
    \/ /\ At(t, "lock", "write")
       /\ privKey' = noKey
       /\ isAuthed' = FALSE
       /\ Touch(t, "lock", {"privKey"}, TRUE)
       /\ keyMtx' = Unlocked(keyMtx, t)
       /\ lockSnap' = [taken |-> TRUE, wasUnlocked |-> privKey # noKey,
                       encKey |-> encKey, id |-> id,
                       pending |-> {u \in AcctProcs : acall[u].op = "unlock"}]
       /\ Finish(t, Ret("lock"))
       /\ UNCHANGED <<encKey, id, viewOnly, disabled, rep, bonding, authMtx,
                      adone>>

lock(t) ==
    \/ KeyLock(t, "lock", "write")
    \/ /\ At(t, "lock", "write")
       /\ privKey' = noKey
       /\ Touch(t, "lock", {"privKey"}, TRUE)
       /\ keyMtx' = Unlocked(keyMtx, t)
       /\ lockSnap' = [taken |-> TRUE, wasUnlocked |-> privKey # noKey,
                       encKey |-> encKey, id |-> id,
                       pending |-> {u \in AcctProcs : acall[u].op = "unlock"}]
       /\ Finish(t, Ret("lock"))
       /\ UNCHANGED <<encKey, id, viewOnly, authGroup, authMtx, adone>>

\* core/types.go:959-963: initialized, unlocked
status(t) ==
    \/ KeyRLock(t, "status")
    \/ KeyRead(t, "status", {"encKey", "privKey"},
               [Ret("status") EXCEPT !.flag = Len(encKey) > 0,
                                     !.flag2 = privKey # noKey])

\* core/types.go:965-969
isDisabled(t) ==
    \/ AuthRLock(t, "isDisabled")
    \/ AuthRead(t, "isDisabled", [Ret("isDisabled") EXCEPT !.flag = disabled])

\* core/types.go:971-975
toggleAccountStatus(t) ==
    \/ AuthLock(t, "toggleAccountStatus")
    \/ /\ At(t, "toggleAccountStatus", "write")
       /\ disabled' = acall[t].disable
       /\ authMtx' = Unlocked(authMtx, t)
       /\ Finish(t, Ret("toggleAccountStatus"))
       /\ unguarded' = {}
       /\ UNCHANGED <<keyGroup, keyMtx, isAuthed, rep, bonding, adone,
                      lockSnap>>

\* core/types.go:977-983
locked(t) ==
    \/ KeyRLock(t, "locked")
    \/ KeyRead(t, "locked", {"privKey"},
               [Ret("locked") EXCEPT !.flag = privKey = noKey])

\* core/types.go:985-992: the public key of the private key, or nil
pubKey(t) ==
    \/ KeyRLock(t, "pubKey")
    \/ KeyRead(t, "pubKey", {"privKey"}, [Ret("pubKey") EXCEPT !.key = privKey])

\* core/types.go:994-1000
authed(t) ==
    \/ AuthRLock(t, "authed")
    \/ AuthRead(t, "authed", [Ret("authed") EXCEPT !.flag = isAuthed])

\* core/types.go:1002-1007
unAuth(t) ==
    \/ AuthLock(t, "unAuth")
    \/ /\ At(t, "unAuth", "write")
       /\ isAuthed' = FALSE
       /\ authMtx' = Unlocked(authMtx, t)
       /\ Finish(t, Ret("unAuth"))
       /\ unguarded' = {}
       /\ UNCHANGED <<keyGroup, keyMtx, disabled, rep, bonding, adone,
                      lockSnap>>

\* a suspended that also reports an account that is not authenticated
SuspendedUnlessAuthed(t) ==
    \/ AuthRLock(t, "suspended")
    \/ AuthRead(t, "suspended",
                [Ret("suspended") EXCEPT
                    !.flag = EffectiveTier(rep) < 1 \/ ~isAuthed])

\* core/types.go:1009-1014
suspended(t) ==
    \/ AuthRLock(t, "suspended")
    \/ AuthRead(t, "suspended",
                [Ret("suspended") EXCEPT !.flag = EffectiveTier(rep) < 1])

\* core/types.go:1016-1025: the nil check and the use of a.privKey are two
\* reads under the one read lock
sign(t) ==
    \/ /\ At(t, "sign", "rlock")
       /\ CanRLock(keyMtx)
       /\ keyMtx' = RLocked(keyMtx, t)
       /\ Goto(t, "check")
       /\ unguarded' = {}
       /\ UNCHANGED <<keyGroup, authGroup, authMtx, acall, atmp, adone,
                      lockSnap>>
    \/ /\ At(t, "sign", "check")
       /\ Touch(t, "sign", {"privKey"}, FALSE)
       /\ IF privKey = noKey
          THEN /\ Finish(t, [Ret("sign") EXCEPT !.err = errAccountLocked])
               /\ keyMtx' = RUnlocked(keyMtx, t)
          ELSE /\ atmp' = [atmp EXCEPT ![t].privKey = privKey]
               /\ Goto(t, "use")
               /\ UNCHANGED <<acall, keyMtx>>
       /\ UNCHANGED <<keyGroup, authGroup, authMtx, adone, lockSnap>>
    \/ /\ At(t, "sign", "use")
       /\ Touch(t, "sign", {"privKey"}, FALSE)
       /\ Finish(t, [Ret("sign") EXCEPT !.key = privKey,
                                        !.seen = atmp[t].privKey])
       /\ keyMtx' = RUnlocked(keyMtx, t)
       /\ UNCHANGED <<keyGroup, authGroup, authMtx, adone, lockSnap>>

\* the authentication of the account, defined outside core/types.go: under
\* authMtx it marks the account authenticated and stores the reputation the
\* server reported
authDEX(t) ==
    \/ AuthLock(t, "authDEX")
    \/ /\ At(t, "authDEX", "write")
       /\ isAuthed' = TRUE
       /\ rep' = [effectiveTier |-> acall[t].tier]
       /\ authMtx' = Unlocked(authMtx, t)
       /\ Finish(t, Ret("authDEX"))
       /\ unguarded' = {}
       /\ UNCHANGED <<keyGroup, keyMtx, disabled, bonding, adone, lockSnap>>

\* the account at rest, as newDEXAccount (core/types.go:834-849) returns it
\* for an account without keys
InitAcctIdle ==
    /\ encKey = NoEncKey
    /\ privKey = noKey
    /\ id = ZeroID
    /\ viewOnly = TRUE
    /\ keyMtx = FreeMtx
    /\ isAuthed = FALSE
    /\ disabled = FALSE
    /\ rep = [effectiveTier |-> 0]
    /\ bonding = NewBonding
    /\ authMtx = FreeMtx
    /\ acall = [t \in AcctProcs |-> NoCall]
    /\ apc = [t \in AcctProcs |-> "idle"]
    /\ atmp = [t \in AcctProcs |-> NoTmp]
    /\ aret = NoRet
    /\ adone = [t \in AcctProcs |-> 0]
    /\ unguarded = {}
    /\ lockSnap = NoSnap

(***************************************************************************)
(* Initial states.  newBasicMarketMaker (mm_basic.go:497-520) returns a    *)
(* bot only for a config that validate accepts, as validate left it.       *)
(***************************************************************************)
Placement(lots, gapFactor) == [Lots |-> lots, GapFactor |-> gapFactor]

RawConfigs ==
    { [GapStrategy |-> GapStrategyPercent,
       SellPlacements |-> <<Placement(2, 10)>>,
       BuyPlacements |-> <<Placement(1, 10), Placement(3, 100)>>,
       DriftTolerance |-> 0],
      [GapStrategy |-> GapStrategyAbsolutePlus,
       SellPlacements |-> <<Placement(1, 20)>>,
       BuyPlacements |-> <<Placement(1, 20), Placement(2, 2000)>>,
       DriftTolerance |-> 100],
      [GapStrategy |-> GapStrategyPercent,
       SellPlacements |-> <<Placement(1, 200)>>,
       BuyPlacements |-> <<>>,
       DriftTolerance |-> 0] }

Markets == {[rateStep |-> 2, lotSize |-> 10, rateConv |-> 100]}

InitBot ==
    /\ \E raw \in RawConfigs :
        /\ validate(raw).err = nil
        /\ cfg = validate(raw).cfg
    /\ market \in Markets
    /\ rebalanceRunning = FALSE
    /\ loc = [p \in Procs |-> NoLoc]
    /\ trace = [p \in Procs |-> <<>>]
    /\ reports = <<>>
    /\ ncalls = 0

InitFeed ==
    /\ bookFeed = <<>>
    /\ feedOpen = TRUE
    /\ sent = <<>>
    /\ received = <<>>
    /\ started = <<>>
    /\ finished = <<>>
    /\ ctxDone = FALSE
    /\ killCalls = 0
    /\ feedCloseCalls = 0
    /\ wgCount = 0
    /\ exitVia = "none"
    /\ cancelledDuring = 0

InitCalcIdle ==
    /\ calcIn = NoIn
    /\ calcOut = NoOut

\* the bot loop
Init ==
    /\ InitBot
    /\ InitFeed
    /\ InitCalcIdle
    /\ InitAcctIdle
    /\ pc = [p \in Procs |-> IF p = Loop THEN "start" ELSE "idle"]

Env(maxEpoch) ==
    FeedResolvedEpoch(maxEpoch) \/ FeedOther \/ FeedCloses \/ CtxCancel

Next ==
    \/ (BotLoopStart /\ UNCHANGED <<calcVars, acctVars>>)
    \/ (LoopStep /\ UNCHANGED <<calcVars, acctVars>>)
    \/ (Env(MaxEpoch) /\ UNCHANGED <<calcVars, acctVars>>)

Spec == Init /\ [][Next]_vars

\* the bot loop where every task that can step eventually steps; a select
\* with several ready cases picks one at random, so a case that is ready
\* again and again is eventually picked
NextFair ==
    \/ (BotLoopStart /\ UNCHANGED <<calcVars, acctVars>>)
    \/ (LoopStep /\ UNCHANGED <<calcVars, acctVars>>)
    \/ (Env(MaxFairEpoch) /\ UNCHANGED <<calcVars, acctVars>>)

FairSpec == Init /\ [][NextFair]_vars
                 /\ WF_vars(LoopStep /\ UNCHANGED <<calcVars, acctVars>>)
                 /\ SF_vars(LoopCtxDone /\ UNCHANGED <<calcVars, acctVars>>)

\* concurrent direct callers of rebalance
InitConc ==
    /\ InitBot
    /\ InitFeed
    /\ InitCalcIdle
    /\ InitAcctIdle
    /\ pc = [p \in Procs |-> IF p = Loop THEN "off" ELSE "idle"]

NextConc ==
    \E p \in Callers :
        \/ (DirectCall(p) /\ UNCHANGED <<calcVars, acctVars>>)
        \/ (DirectGuard(p) /\ UNCHANGED <<calcVars, acctVars>>)
        \/ (DirectRebalance(p) /\ UNCHANGED <<calcVars, acctVars>>)
        \/ (DirectRelease(p) /\ UNCHANGED <<calcVars, acctVars>>)

SpecConc == InitConc /\ [][NextConc]_vars

\* the calculator on drawn inputs
InitCalc ==
    /\ InitBot
    /\ InitFeed
    /\ InitAcctIdle
    /\ pc = [p \in Procs |-> IF p = Loop THEN "off" ELSE "idle"]
    /\ calcIn \in [oracle : 0..MaxRate, fiat : 0..MaxRate, rateStep : 1..MaxStep,
                    midGap : {0, MaxRate}]
    /\ calcOut = NoOut

NextCalc == CalcBasisPrice /\ UNCHANGED <<botVars, feedVars, acctVars>>

SpecCalc == InitCalc /\ [][NextCalc]_vars

\* everything but the calculator harness at rest
InitIdle ==
    /\ InitBot
    /\ InitFeed
    /\ InitAcctIdle
    /\ pc = [p \in Procs |-> IF p = Loop THEN "off" ELSE "idle"]

(***************************************************************************)
(* One cycle of ordersToPlace, mm_basic.go:375-421, taken call by call      *)
(* while the market's rate step is updated: calcOut holds the live rate     *)
(* step, the position of the cycle and the locals it has computed so far.   *)
(* basisPrice and each orderPrice load the rate step when they are called.  *)
(***************************************************************************)
SteppedCycleInputs ==
    {x \in PlanInputs :
        /\ x.in.oracle \in 0..MaxBasisSteps
        /\ x.in.buyFees = FeesOK(1)
        /\ Len(x.c.BuyPlacements) <= 2
        /\ Len(x.c.SellPlacements) <= 2}

CycleStart(x) ==
    [op |-> "cycle", at |-> "basisPrice", rateStep |-> x.mkt.rateStep,
     stepUpdates |-> 0, bp |-> 0, feeAdj |-> 0,
     buyOrders |-> <<>>, sellOrders |-> <<>>, err |-> nil]

\* the live market: calcIn.mkt with the rate step as it is now
CycleMarket == [calcIn.mkt EXCEPT !.rateStep = calcOut.rateStep]

\* where the cycle continues once nBuy buy rungs and nSell sell rungs are
\* priced
CycleAfter(nBuy, nSell) ==
    IF nBuy < Len(calcIn.c.BuyPlacements) THEN "buy"
    ELSE IF nSell < Len(calcIn.c.SellPlacements) THEN "sell"
    ELSE "done"

\* basisPrice, err := m.calculator.basisPrice()
CycleBasisPrice ==
    /\ calcOut.op = "cycle"
    /\ calcOut.at = "basisPrice"
    /\ LET b == basisPrice(calcIn.in.oracle, calcIn.in.fiat, calcOut.rateStep)
       IN  calcOut' = IF b.err # nil
                      THEN [calcOut EXCEPT !.at = "done", !.err = b.err]
                      ELSE [calcOut EXCEPT !.at = "feeGapStats", !.bp = b.bp]
    /\ UNCHANGED calcIn

\* feeGap, err := m.calculator.feeGapStats(basisPrice), and feeAdj
CycleFeeGapStats ==
    /\ calcOut.op = "cycle"
    /\ calcOut.at = "feeGapStats"
    /\ LET g == feeGapStats(calcOut.bp, calcIn.in.sellFees, calcIn.in.buyFees,
                            calcIn.mkt.lotSize)
       IN  calcOut' =
            IF g.err # nil
            THEN [calcOut EXCEPT !.at = "done", !.err = g.err]
            ELSE [calcOut EXCEPT
                    !.at = CycleAfter(0, 0),
                    !.feeAdj = IF needBreakEvenHalfSpread(calcIn.c.GapStrategy)
                               THEN g.stats.FeeGap \div 2
                               ELSE 0]
    /\ UNCHANGED calcIn

\* one turn of the loop in orders(): m.orderPrice for the next rung
CycleOrderPrice ==
    /\ calcOut.op = "cycle"
    /\ calcOut.at \in {"buy", "sell"}
    /\ LET sell == calcOut.at = "sell"
           rungs == IF sell THEN calcIn.c.SellPlacements
                    ELSE calcIn.c.BuyPlacements
           placed == IF sell THEN calcOut.sellOrders ELSE calcOut.buyOrders
           p == rungs[Len(placed) + 1]
           rate == orderPrice(calcIn.c.GapStrategy, CycleMarket, calcOut.bp,
                              calcOut.feeAdj, sell, p.GapFactor)
           next == Append(placed,
                          [Rate |-> rate,
                           Lots |-> IF rate = 0 THEN 0 ELSE p.Lots])
       IN  calcOut' =
            IF sell
            THEN [calcOut EXCEPT
                    !.sellOrders = next,
                    !.at = CycleAfter(Len(calcOut.buyOrders), Len(next))]
            ELSE [calcOut EXCEPT
                    !.buyOrders = next,
                    !.at = CycleAfter(Len(next), Len(calcOut.sellOrders))]
    /\ UNCHANGED calcIn

\* the market's rate step is stored while the cycle runs
RateStepUpdate ==
    /\ calcOut.op = "cycle"
    /\ calcOut.at # "done"
    /\ calcOut.stepUpdates < MaxStepUpdates
    /\ \E st \in (1..MaxStep) \ {calcOut.rateStep} :
            calcOut' = [calcOut EXCEPT !.rateStep = st,
                                       !.stepUpdates = @ + 1]
    /\ UNCHANGED calcIn

InitCycle ==
    /\ InitIdle
    /\ calcIn \in SteppedCycleInputs
    /\ calcOut = CycleStart(calcIn)

NextCycle ==
    \/ (CycleBasisPrice /\ UNCHANGED <<botVars, feedVars, acctVars>>)
    \/ (CycleFeeGapStats /\ UNCHANGED <<botVars, feedVars, acctVars>>)
    \/ (CycleOrderPrice /\ UNCHANGED <<botVars, feedVars, acctVars>>)
    \/ (RateStepUpdate /\ UNCHANGED <<botVars, feedVars, acctVars>>)

SpecCycle == InitCycle /\ [][NextCycle]_vars

(***************************************************************************)
(* matchFromMetaMatchWithConfs, core/types.go:310-385.  ord is the order    *)
(* (whether it is a cancel order, whether it sells), mm the MetaMatch (its  *)
(* side, status and proof: the four coin IDs, the refund coin ID, whether   *)
(* the match is revoked), confs the six confirmation arguments.  A coin ID  *)
(* is a sequence of bytes, empty when the coin is not known; a *Coin is a   *)
(* record or NoCoin for nil, its Confs a record or NoConfs for nil.         *)
(***************************************************************************)
\* order.MatchStatus runs from 0 (NewlyMatched) to 5 (MatchConfirmed)
MakerSwapCast == 1
TakerSwapCast == 2
MatchConfirmed == 5

Maker == "maker"
Taker == "taker"

\* a nil *Confirmations, and a nil *Coin
NoConfs == [set |-> FALSE, Count |-> 0, Required |-> 0]
NoCoin == [ID |-> <<>>, AssetID |-> "none", Confs |-> NoConfs]

NewCoin(assetID, coinID) ==
    [ID |-> coinID, AssetID |-> assetID, Confs |-> NoConfs]

SetConfirmations(c, confs, confReq) ==
    [c EXCEPT !.Confs = [set |-> TRUE, Count |-> confs, Required |-> confReq]]

\* the zero Match
NoMatch ==
    [Status |-> 0, Side |-> Maker, Revoked |-> FALSE,
     Swap |-> NoCoin, CounterSwap |-> NoCoin, Redeem |-> NoCoin,
     CounterRedeem |-> NoCoin, Refund |-> NoCoin]

\* variant: each alternative of the status test is parenthesised, so that
\* the revocation and the requirement are tested for both sides
MatchWithConfsBothSidesGated(ord, mm, confs) ==
    LET side == mm.Side
        matchStatus == mm.Status
        fromID == IF ord.sell THEN "base" ELSE "quote"
        toID == IF ord.sell THEN "quote" ELSE "base"
        taker == side = Taker
        swapCoin == IF taker THEN mm.TakerSwap ELSE mm.MakerSwap
        counterSwapCoin == IF taker THEN mm.MakerSwap ELSE mm.TakerSwap
        redeemCoin == IF taker THEN mm.TakerRedeem ELSE mm.MakerRedeem
        counterRedeemCoin == IF taker THEN mm.MakerRedeem ELSE mm.TakerRedeem
        swapWaits ==
            /\ \/ (side = Taker /\ matchStatus = TakerSwapCast)
               \/ (side = Maker /\ matchStatus = MakerSwapCast)
            /\ ~mm.Revoked
            /\ confs.swapReq > 0
        counterWaits ==
            /\ \/ (side = Maker /\ matchStatus = TakerSwapCast)
               \/ (side = Taker /\ matchStatus = MakerSwapCast)
            /\ ~mm.Revoked
            /\ confs.counterReq > 0
    IN  IF ord.isCancel THEN NoMatch
        ELSE [Status |-> matchStatus, Side |-> side, Revoked |-> mm.Revoked,
              Swap |-> IF swapCoin = <<>> THEN NoCoin
                       ELSE IF swapWaits
                       THEN SetConfirmations(NewCoin(fromID, swapCoin),
                                             confs.swapConfs, confs.swapReq)
                       ELSE NewCoin(fromID, swapCoin),
              CounterSwap |-> IF counterSwapCoin = <<>> THEN NoCoin
                       ELSE IF counterWaits
                       THEN SetConfirmations(NewCoin(toID, counterSwapCoin),
                                             confs.counterSwapConfs,
                                             confs.counterReq)
                       ELSE NewCoin(toID, counterSwapCoin),
              Redeem |-> IF redeemCoin = <<>> THEN NoCoin
                       ELSE IF matchStatus < MatchConfirmed
                       THEN SetConfirmations(NewCoin(toID, redeemCoin),
                                             confs.redeemConfs, confs.redeemReq)
                       ELSE NewCoin(toID, redeemCoin),
              CounterRedeem |-> IF counterRedeemCoin = <<>> THEN NoCoin
                                ELSE NewCoin(fromID, counterRedeemCoin),
              Refund |-> IF mm.RefundCoin = <<>> THEN NoCoin
                         ELSE NewCoin(fromID, mm.RefundCoin)]

\* && binds tighter than ||: the revocation and the requirement are tested
\* with the second alternative of each status test only
matchFromMetaMatchWithConfs(ord, mm, confs) ==
    LET side == mm.Side
        matchStatus == mm.Status
        fromID == IF ord.sell THEN "base" ELSE "quote"
        toID == IF ord.sell THEN "quote" ELSE "base"
        taker == side = Taker
        swapCoin == IF taker THEN mm.TakerSwap ELSE mm.MakerSwap
        counterSwapCoin == IF taker THEN mm.MakerSwap ELSE mm.TakerSwap
        redeemCoin == IF taker THEN mm.TakerRedeem ELSE mm.MakerRedeem
        counterRedeemCoin == IF taker THEN mm.MakerRedeem ELSE mm.TakerRedeem
        swapWaits ==
            \/ (side = Taker /\ matchStatus = TakerSwapCast)
            \/ /\ side = Maker /\ matchStatus = MakerSwapCast
               /\ ~mm.Revoked
               /\ confs.swapReq > 0
        counterWaits ==
            \/ (side = Maker /\ matchStatus = TakerSwapCast)
            \/ /\ side = Taker /\ matchStatus = MakerSwapCast
               /\ ~mm.Revoked
               /\ confs.counterReq > 0
    IN  IF ord.isCancel THEN NoMatch
        ELSE [Status |-> matchStatus, Side |-> side, Revoked |-> mm.Revoked,
              Swap |-> IF swapCoin = <<>> THEN NoCoin
                       ELSE IF swapWaits
                       THEN SetConfirmations(NewCoin(fromID, swapCoin),
                                             confs.swapConfs, confs.swapReq)
                       ELSE NewCoin(fromID, swapCoin),
              CounterSwap |-> IF counterSwapCoin = <<>> THEN NoCoin
                       ELSE IF counterWaits
                       THEN SetConfirmations(NewCoin(toID, counterSwapCoin),
                                             confs.counterSwapConfs,
                                             confs.counterReq)
                       ELSE NewCoin(toID, counterSwapCoin),
              Redeem |-> IF redeemCoin = <<>> THEN NoCoin
                       ELSE IF matchStatus < MatchConfirmed
                       THEN SetConfirmations(NewCoin(toID, redeemCoin),
                                             confs.redeemConfs, confs.redeemReq)
                       ELSE NewCoin(toID, redeemCoin),
              CounterRedeem |-> IF counterRedeemCoin = <<>> THEN NoCoin
                                ELSE NewCoin(fromID, counterRedeemCoin),
              Refund |-> IF mm.RefundCoin = <<>> THEN NoCoin
                         ELSE NewCoin(fromID, mm.RefundCoin)]

ZeroConfs ==
    [swapConfs |-> 0, swapReq |-> 0, counterSwapConfs |-> 0,
     counterReq |-> 0, redeemConfs |-> 0, redeemReq |-> 0]

\* for inactive matches: no confirmation arguments
matchFromMetaMatch(ord, mm) == matchFromMetaMatchWithConfs(ord, mm, ZeroConfs)

MatchInputs ==
    [ord : [isCancel : BOOLEAN, sell : BOOLEAN],
     mm : [Side : {Maker, Taker},
           Status : 0..MatchConfirmed,
           Revoked : BOOLEAN,
           MakerSwap : {<<>>, <<1>>}, TakerSwap : {<<>>, <<2>>},
           MakerRedeem : {<<>>, <<3>>}, TakerRedeem : {<<>>, <<4>>},
           RefundCoin : {<<>>, <<5>>}],
     confs : [swapConfs : {1}, swapReq : {0, 2},
              counterSwapConfs : {1}, counterReq : {0, 2},
              redeemConfs : {0}, redeemReq : {1}]]

CalcMatchWithConfs ==
    /\ calcOut.op = "none"
    /\ calcOut' = [op |-> "matchFromMetaMatchWithConfs",
                   match |-> matchFromMetaMatchWithConfs(calcIn.ord, calcIn.mm,
                                                         calcIn.confs)]
    /\ UNCHANGED calcIn

CalcMatch ==
    /\ calcOut.op = "none"
    /\ calcOut' = [op |-> "matchFromMetaMatch",
                   match |-> matchFromMetaMatch(calcIn.ord, calcIn.mm)]
    /\ UNCHANGED calcIn

InitMatch ==
    /\ InitIdle
    /\ calcIn \in MatchInputs
    /\ calcOut = NoOut

NextMatch ==
    \/ (CalcMatchWithConfs /\ UNCHANGED <<botVars, feedVars, acctVars>>)
    \/ (CalcMatch /\ UNCHANGED <<botVars, feedVars, acctVars>>)

SpecMatch == InitMatch /\ [][NextMatch]_vars

\* orderPrice on drawn inputs
InitPrice ==
    /\ InitIdle
    /\ calcIn \in PriceInputs
    /\ calcOut = NoOut

NextPrice == CalcOrderPrice /\ UNCHANGED <<botVars, feedVars, acctVars>>

SpecPrice == InitPrice /\ [][NextPrice]_vars

\* feeGapStats and halfSpread on drawn inputs
InitFee ==
    /\ InitIdle
    /\ calcIn \in FeeInputs
    /\ calcOut = NoOut

NextFee ==
    \/ (CalcFeeGapStats /\ UNCHANGED <<botVars, feedVars, acctVars>>)
    \/ (CalcHalfSpread /\ UNCHANGED <<botVars, feedVars, acctVars>>)

SpecFee == InitFee /\ [][NextFee]_vars

\* ordersToPlace on drawn inputs
InitPlan ==
    /\ InitIdle
    /\ calcIn \in PlanInputs
    /\ calcOut = NoOut

NextPlan == CalcOrdersToPlace /\ UNCHANGED <<botVars, feedVars, acctVars>>

SpecPlan == InitPlan /\ [][NextPlan]_vars

\* validate and newBasicMarketMaker on drawn configs
InitValidate ==
    /\ InitIdle
    /\ calcIn \in ValidateInputs
    /\ calcOut = NoOut

NextValidate ==
    \/ (CalcValidate /\ UNCHANGED <<botVars, feedVars, acctVars>>)
    \/ (CalcNewBasicMarketMaker /\ UNCHANGED <<botVars, feedVars, acctVars>>)

SpecValidate == InitValidate /\ [][NextValidate]_vars

\* updateLotSize on drawn inputs
InitLotSize ==
    /\ InitIdle
    /\ calcIn \in LotSizeInputs
    /\ calcOut = NoOut

NextLotSize == CalcUpdateLotSize /\ UNCHANGED <<botVars, feedVars, acctVars>>

SpecLotSize == InitLotSize /\ [][NextLotSize]_vars

\* bytes at the edges of the range and of its upper half
EdgeBytes == {0, 1, 127, 128, 255}

\* a serialized compressed public key: 33 bytes, the first 2 or 3, with
\* the lowest and the highest byte of word w drawn and the others fixed
DexPubKey(first, w, lo, hi) ==
    [i \in 1..33 |->
        IF i = 1 THEN first
        ELSE IF i = 2 + 4 * (w - 1) THEN lo
        ELSE IF i = 5 + 4 * (w - 1) THEN hi
        ELSE (7 * i) % 256]

DexPubKeys ==
    {DexPubKey(first, w, lo, hi) :
        first \in {2, 3}, w \in 1..8, lo \in EdgeBytes, hi \in EdgeBytes}

\* key indices below hdkeychain.HardenedKeyStart
KeyIndices == {U32(FALSE, n) : n \in (0..MaxKeyIndex) \cup {2147483647}}

DeriveInputs ==
    [seed : {"seedA", "seedB"}, dexPkB : DexPubKeys, keyIndex : KeyIndices]

\* the derivation of setupCryptoV2 on drawn inputs
CalcDeriveKey ==
    /\ calcOut.op = "none"
    /\ LET r == deriveKey(calcIn.seed, calcIn.dexPkB, calcIn.keyIndex)
       IN  calcOut' = [op |-> "deriveKey", runs |-> 1, kids |-> r.kids,
                       privKey |-> r.privKey, id |-> r.id,
                       kids2 |-> <<>>, privKey2 |-> <<>>, id2 |-> <<>>]
    /\ UNCHANGED calcIn

\* a second run on the same inputs
CalcDeriveKeyAgain ==
    /\ calcOut.op = "deriveKey"
    /\ calcOut.runs = 1
    /\ LET r == deriveKey(calcIn.seed, calcIn.dexPkB, calcIn.keyIndex)
       IN  calcOut' = [calcOut EXCEPT !.runs = 2, !.kids2 = r.kids,
                                      !.privKey2 = r.privKey, !.id2 = r.id]
    /\ UNCHANGED calcIn

\* the key derivation of setupCryptoV2 on drawn inputs
InitDerive ==
    /\ InitIdle
    /\ cfg.GapStrategy = GapStrategyPercent
    /\ calcIn \in DeriveInputs
    /\ calcOut = NoOut

NextDerive ==
    \/ (CalcDeriveKey /\ UNCHANGED <<botVars, feedVars, acctVars>>)
    \/ (CalcDeriveKeyAgain /\ UNCHANGED <<botVars, feedVars, acctVars>>)

SpecDerive == InitDerive /\ [][NextDerive]_vars

\* the account as newDEXAccount (core/types.go:834-849) returns it, with
\* or without an encrypted key, and the tasks that call its methods
InitAcct ==
    /\ InitBot
    /\ cfg.GapStrategy = GapStrategyPercent
    /\ InitFeed
    /\ InitCalcIdle
    /\ pc = [p \in Procs |-> IF p = Loop THEN "off" ELSE "idle"]
    /\ encKey \in {NoEncKey, EncOf("keyA")}
    /\ privKey = noKey
    /\ id = ZeroID
    /\ viewOnly = (encKey = NoEncKey)
    /\ keyMtx = FreeMtx
    /\ isAuthed = FALSE
    /\ disabled = FALSE
    /\ rep = [effectiveTier |-> 0]
    /\ bonding = NewBonding
    /\ authMtx = FreeMtx
    /\ acall = [t \in AcctProcs |-> NoCall]
    /\ apc = [t \in AcctProcs |-> "idle"]
    /\ atmp = [t \in AcctProcs |-> NoTmp]
    /\ aret = NoRet
    /\ adone = [t \in AcctProcs |-> 0]
    /\ unguarded = {}
    /\ lockSnap = NoSnap

AcctStep(t) ==
    \/ AcctCall(t)
    \/ ID(t)
    \/ isViewOnly(t)
    \/ setupCryptoV2(t)
    \/ unlock(t)
    \/ lock(t)
    \/ status(t)
    \/ isDisabled(t)
    \/ toggleAccountStatus(t)
    \/ locked(t)
    \/ pubKey(t)
    \/ authed(t)
    \/ unAuth(t)
    \/ suspended(t)
    \/ sign(t)
    \/ authDEX(t)

NextAcct ==
    \E t \in AcctProcs :
        \/ (AcctCall(t) /\ UNCHANGED <<botVars, feedVars, calcVars>>)
        \/ (ID(t) /\ UNCHANGED <<botVars, feedVars, calcVars>>)
        \/ (isViewOnly(t) /\ UNCHANGED <<botVars, feedVars, calcVars>>)
        \/ (setupCryptoV2(t) /\ UNCHANGED <<botVars, feedVars, calcVars>>)
        \/ (unlock(t) /\ UNCHANGED <<botVars, feedVars, calcVars>>)
        \/ (lock(t) /\ UNCHANGED <<botVars, feedVars, calcVars>>)
        \/ (status(t) /\ UNCHANGED <<botVars, feedVars, calcVars>>)
        \/ (isDisabled(t) /\ UNCHANGED <<botVars, feedVars, calcVars>>)
        \/ (toggleAccountStatus(t) /\ UNCHANGED <<botVars, feedVars, calcVars>>)
        \/ (locked(t) /\ UNCHANGED <<botVars, feedVars, calcVars>>)
        \/ (pubKey(t) /\ UNCHANGED <<botVars, feedVars, calcVars>>)
        \/ (authed(t) /\ UNCHANGED <<botVars, feedVars, calcVars>>)
        \/ (unAuth(t) /\ UNCHANGED <<botVars, feedVars, calcVars>>)
        \/ (suspended(t) /\ UNCHANGED <<botVars, feedVars, calcVars>>)
        \/ (sign(t) /\ UNCHANGED <<botVars, feedVars, calcVars>>)
        \/ (authDEX(t) /\ UNCHANGED <<botVars, feedVars, calcVars>>)

SpecAcct == InitAcct /\ [][NextAcct]_vars

(***************************************************************************)
(* Properties.                                                             *)
(***************************************************************************)
Ops(t) == [i \in 1..Len(t) |-> t[i].op]
Running == {p \in Procs : pc[p] \in PastGuard}
ReportsOf(e) == {i \in 1..Len(reports) : reports[i].EpochNum = e}

\* C1: at most one rebalance invocation is past the rebalanceRunning guard,
\* and a call that meets the flag set returns at once: it has made no call
\* to a collaborator (health check, planner, cancel, multiTrade, report),
\* it changes neither the reports nor the flag, and it is back at its
\* caller, not waiting for the running invocation.
C1_SingleFlight ==
    /\ [](Cardinality(Running) <= 1)
    /\ [](\A p \in Procs : loc[p].guard = "rejected" =>
              pc[p] = ReturnPc(p) /\ trace[p] = <<>>)
    /\ [][\A p \in Procs :
              (pc[p] = "guard" /\ pc'[p] # "guard" /\ rebalanceRunning) =>
                  /\ loc'[p].guard = "rejected"
                  /\ pc'[p] = ReturnPc(p)
                  /\ reports' = reports
                  /\ rebalanceRunning' = rebalanceRunning
                  /\ trace' = trace]_vars

\* a call was rejected while another invocation was at work
C1_Witness ==
    \E p, q \in Callers :
        /\ p # q
        /\ loc[p].guard = "rejected"
        /\ pc[p] = "idle"
        /\ pc[q] \in {"plan", "buy", "sell", "report"}
        /\ loc[q].newEpoch # loc[p].newEpoch

\* C2: an invocation that passed the guard clears the flag as it returns,
\* on the unhealthy, the failed and the placed path alike: the flag is set
\* exactly while an invocation is between guard and return, so a call made
\* when no invocation is running is not rejected.
C2_FlagReleased ==
    /\ [](rebalanceRunning <=> Running # {})
    /\ [](\A p \in Procs :
              (loc[p].guard = "passed" /\ pc[p] = ReturnPc(p)) =>
                  /\ Len(trace[p]) >= 2
                  /\ trace[p][Len(trace[p])].op \in
                        {"tryCancelOrders", "updateEpochReport"})
    /\ [][\A p \in Procs :
              (pc[p] = "guard" /\ loc'[p].guard = "rejected") =>
                  \E q \in Procs \ {p} : pc[q] \in PastGuard]_vars

\* the three paths have returned and the flag is clear; the last call
\* passed the guard after an earlier invocation had returned
C2_Witness ==
    /\ ~rebalanceRunning
    /\ Running = {}
    /\ ncalls = 3
    /\ \E i \in 1..Len(reports) : reports[i].PreOrderProblems # nil
    /\ \E i \in 1..Len(reports) : reports[i].PreOrderProblems = nil
    /\ \E p \in Callers :
        /\ pc[p] = "idle"
        /\ loc[p].guard = "passed"
        /\ Ops(trace[p]) = <<"checkBotHealth", "tryCancelOrders">>

IsPrefix(a, b) == Len(a) <= Len(b) /\ a = SubSeq(b, 1, Len(a))
Exited == pc[Loop] \in {"deferClose", "deferDone", "done"}
\* the invocation of p has made all its calls: it is at its deferred release
\* or has returned
Returning(p) == pc[p] = "release" \/ pc[p] \notin InRebalance

C4_FailedEpoch ==
    /\ [](\A p \in Procs :
            (loc[p].guard = "passed" /\ loc[p].determinePlacementsErr # nil) =>
                /\ IsPrefix(Ops(trace[p]),
                            <<"checkBotHealth", "ordersToPlace",
                              "tryCancelOrders", "updateEpochReport">>)
                /\ Len(trace[p]) >= 3 => trace[p][3].epoch = loc[p].newEpoch
                /\ Returning(p) =>
                    /\ Len(trace[p]) = 4
                    /\ \E i \in 1..Len(reports) :
                        reports[i] = [BuysReport |-> NoReport,
                                      SellsReport |-> NoReport,
                                      EpochNum |-> loc[p].newEpoch,
                                      PreOrderProblems |->
                                          loc[p].determinePlacementsErr])
    /\ [](\A i \in 2..Len(finished) :
            finished[i - 1].err # nil => finished[i].guard = "passed")
    /\ [][(pc[Loop] = "release" /\ loc[Loop].determinePlacementsErr # nil
            /\ pc'[Loop] # "release") =>
                /\ pc'[Loop] = "select"
                /\ ~rebalanceRunning'
                /\ killCalls' = killCalls]_vars

\* a failed epoch was reported and the next epoch was placed
C4_Witness ==
    /\ Len(finished) >= 2
    /\ finished[1].err = errNoBasisPrice
    /\ finished[2].healthy /\ finished[2].err = nil
    /\ Len(reports) = 2
    /\ reports[1].PreOrderProblems = errNoBasisPrice
    /\ reports[2].BuysReport = OrderReportOf(FALSE, finished[2].epoch)

\* C5: when the health check answers unhealthy, rebalance calls
\* tryCancelOrders for this epoch and returns; the planner (and with it the
\* calculator) and multiTrade are not called.
C5_UnhealthyStops ==
    \A p \in Procs :
        (loc[p].guard = "passed" /\ Len(trace[p]) >= 1 /\ ~loc[p].healthy) =>
            /\ IsPrefix(Ops(trace[p]), <<"checkBotHealth", "tryCancelOrders">>)
            /\ pc[p] \in InRebalance => pc[p] \in {"cancelUnhealthy", "release"}
            /\ Returning(p) =>
                /\ Len(trace[p]) = 2
                /\ trace[p][2].epoch = loc[p].newEpoch
            /\ loc[p].buyOrders = <<>> /\ loc[p].sellOrders = <<>>

\* the loop is back at its select after an unhealthy epoch
C5_Witness ==
    /\ pc[Loop] = "select"
    /\ loc[Loop].guard = "passed"
    /\ ~loc[Loop].healthy
    /\ Ops(trace[Loop]) = <<"checkBotHealth", "tryCancelOrders">>
    /\ trace[Loop][2].epoch = 2

\* C6: when the bot is healthy and ordersToPlace succeeds, rebalance calls
\* multiTrade exactly twice, first with the buy placements and sell = false,
\* then with the sell placements and sell = true, each with the configured
\* drift tolerance and the triggering epoch; it never calls tryCancelOrders;
\* only after both calls it publishes one report with that epoch number and
\* the two reports multiTrade returned.
C6_PlacedEpoch ==
    \A p \in Procs :
        (loc[p].guard = "passed" /\ loc[p].healthy /\ Len(trace[p]) >= 2
            /\ loc[p].determinePlacementsErr = nil) =>
            LET t == trace[p]
                e == loc[p].newEpoch
            IN  /\ IsPrefix(Ops(t), <<"checkBotHealth", "ordersToPlace",
                                      "multiTrade", "multiTrade",
                                      "updateEpochReport">>)
                /\ Len(t) >= 3 =>
                    t[3] = Call("multiTrade", e, FALSE, loc[p].buyOrders,
                                cfg.DriftTolerance)
                /\ Len(t) >= 4 =>
                    t[4] = Call("multiTrade", e, TRUE, loc[p].sellOrders,
                                cfg.DriftTolerance)
                /\ Len(t) < 5 => ReportsOf(e) = {}
                /\ Len(t) = 5 =>
                    /\ Cardinality(ReportsOf(e)) = 1
                    /\ \A i \in ReportsOf(e) :
                        reports[i] = [BuysReport |-> OrderReportOf(FALSE, e),
                                      SellsReport |-> OrderReportOf(TRUE, e),
                                      EpochNum |-> e,
                                      PreOrderProblems |-> nil]
                /\ Returning(p) => Len(t) = 5
                /\ cfg.DriftTolerance \in 1..MaxDriftTolerance

\* an epoch was placed with the default drift tolerance and both ladders
C6_Witness ==
    /\ pc[Loop] = "select"
    /\ loc[Loop].guard = "passed"
    /\ loc[Loop].healthy
    /\ Len(trace[Loop]) = 5
    /\ trace[Loop][3].drift = DefaultDriftTolerance
    /\ Len(trace[Loop][3].placements) = 2
    /\ Len(trace[Loop][4].placements) = 1
    /\ reports[Len(reports)].SellsReport = OrderReportOf(TRUE, loc[Loop].newEpoch)

\* C7: the background task leaves its loop only when its context is
\* cancelled or the feed channel is closed (and drained); leaving by the
\* closed feed it has called kill exactly once, leaving by the context it
\* has not called kill; in both cases it then closes the book feed once and
\* releases the wait group.
C7_LoopExit ==
    /\ Exited => \/ exitVia = "ctx" /\ ctxDone
                 \/ exitVia = "feed" /\ ~feedOpen /\ bookFeed = <<>>
    /\ ~Exited => exitVia = "none"
    /\ killCalls = IF exitVia = "feed" THEN 1 ELSE 0
    /\ pc[Loop] = "done" => feedCloseCalls = 1 /\ wgCount = 0
    /\ pc[Loop] \in {"select"} \cup InRebalance =>
            wgCount = 1 /\ feedCloseCalls = 0
    /\ pc[Loop] \in {"start", "failed"} => wgCount = 0 /\ feedCloseCalls = 0

\* the task ended by the closed feed, after it had rebalanced an epoch
C7_Witness ==
    /\ pc[Loop] = "done"
    /\ exitVia = "feed"
    /\ killCalls = 1
    /\ Len(finished) >= 1
    /\ feedCloseCalls = 1
    /\ wgCount = 0

\* the epochs of the resolved-epoch notifications of a sequence
EpochsOf(notes) ==
    LET r == SelectSeq(notes, LAMBDA ni : ni.kind = "ResolvedEpoch")
    IN  [i \in 1..Len(r) |-> r[i].Current]

\* C8: the loop rebalances the resolved epochs in the order the feed
\* delivered them; a rebalance has returned before the next one starts; a
\* notification with another payload starts no rebalance.
C8_InOrderNoOverlap ==
    /\ IsPrefix(started, EpochsOf(sent))
    /\ started = EpochsOf(received)
    /\ IsPrefix([i \in 1..Len(finished) |-> finished[i].epoch], started)
    /\ Len(started) - Len(finished) = IF pc[Loop] \in InRebalance THEN 1 ELSE 0
    /\ pc[Loop] \in InRebalance => loc[Loop].newEpoch = started[Len(started)]

\* the second epoch is being rebalanced after another payload was dropped
\* and while the third epoch waits in the channel
C8_Witness ==
    /\ started = <<1, 2>>
    /\ Len(finished) = 1
    /\ pc[Loop] \in PastGuard
    /\ \E i \in 1..Len(received) : received[i].kind = "other"
    /\ bookFeed = <<Note("ResolvedEpoch", 3)>>

C12_RawOffset ==
    IF calcIn.strat = GapStrategyPercent
    THEN RoundDiv(calcIn.gapFactor * calcIn.bp, GapDenom)
    ELSE msgRate(calcIn.mkt, calcIn.gapFactor)

\* C12 (as stated): a price offset that computes to 0, as with GapFactor 0,
\* stays 0 after the quantization in orderPrice, so the order rate is the
\* basis price.
C12_ZeroOffsetStaysZero ==
    (/\ calcOut.op = "orderPrice"
     /\ calcIn.strat \in {GapStrategyPercent, GapStrategyAbsolute}
     /\ C12_RawOffset = 0) =>
        calcOut.rate = calcIn.bp

\* C12 (amended): the quantized offset of orderPrice is a multiple of the
\* rate step that is never below one step: it is the multiple nearest to the
\* computed offset, except that an offset that rounds to zero steps, as with
\* GapFactor 0, becomes one rate step, so the sell rate is the basis price
\* plus one step and the buy rate the basis price minus one step.
C12_OffsetAtLeastOneStep ==
    (/\ calcOut.op = "orderPrice"
     /\ calcIn.strat \in {GapStrategyPercent, GapStrategyAbsolute}) =>
        LET step == calcIn.mkt.rateStep
            raw == C12_RawOffset
        IN  \E q \in {(raw \div step) * step, (raw \div step + 1) * step} :
                /\ q >= step
                /\ IF 2 * raw < step THEN q = step
                   ELSE 2 * Abs(q - raw) <= step
                /\ calcOut.rate = IF calcIn.sell THEN calcIn.bp + q
                                  ELSE IF q >= calcIn.bp THEN 0
                                  ELSE calcIn.bp - q

\* GapFactor 0 on a buy: the rate is one step below the basis price
C12_Witness ==
    /\ calcOut.op = "orderPrice"
    /\ calcIn.strat = GapStrategyPercent
    /\ calcIn.gapFactor = 0
    /\ ~calcIn.sell
    /\ calcIn.mkt.rateStep = 3
    /\ calcIn.bp = 12
    /\ calcOut.rate = 9

\* C13: feeGapStats and halfSpread fail for a zero basis price before any
\* OrderFeesInUnits query is made; for a nonzero basis price an error of the
\* sell-side query (asked first) or of the buy-side query makes them return
\* that error and no statistics.
C13_FeeErrors ==
    calcOut.op \in {"feeGapStats", "halfSpread"} =>
        LET noStats == IF calcOut.op = "feeGapStats"
                       THEN calcOut.stats = NoStats
                       ELSE calcOut.halfGap = 0
        IN  /\ calcIn.bp = 0 =>
                /\ calcOut.err = errZeroBasisPrice
                /\ calcOut.queries = <<>>
                /\ noStats
            /\ (calcIn.bp # 0 /\ ~calcIn.sellFees.ok) =>
                /\ calcOut.err = errSellFees
                /\ calcOut.queries = <<FeeQuery(TRUE, calcIn.bp)>>
                /\ noStats
            /\ (calcIn.bp # 0 /\ calcIn.sellFees.ok /\ ~calcIn.buyFees.ok) =>
                /\ calcOut.err = errBuyFees
                /\ noStats
            /\ (calcIn.bp # 0 /\ calcIn.sellFees.ok /\ calcIn.buyFees.ok) =>
                calcOut.err = nil

\* a zero basis price with both fee queries ready to fail: the zero basis
\* price is what is reported, and nothing was asked
C13_Witness ==
    /\ calcOut.op = "halfSpread"
    /\ calcIn.bp = 0
    /\ ~calcIn.sellFees.ok
    /\ ~calcIn.buyFees.ok
    /\ calcOut.err = errZeroBasisPrice
    /\ calcOut.queries = <<>>

\* C14: for a basis price > 0, a lot size l > 0 and the fee total
\* f = sell fees + buy fees, feeGapStats returns RoundTripFees = f,
\* BasisPrice = the input and a FeeGap whose half g is the solution
\* f * basisPrice / (f + 2l) of the break-even equation
\* (basisPrice + g) * l = (l + f) * (basisPrice - g), rounded to the nearest
\* integer.
C14_BreakEvenGap ==
    (calcOut.op = "feeGapStats" /\ calcOut.err = nil) =>
        LET f == calcIn.sellFees.units + calcIn.buyFees.units
            l == calcIn.lotSize
            g == calcOut.stats.FeeGap \div 2
        IN  /\ calcIn.bp > 0
            /\ calcOut.stats.RoundTripFees = f
            /\ calcOut.stats.BasisPrice = calcIn.bp
            /\ calcOut.stats.FeeGap = 2 * g
            /\ 2 * Abs(g * (f + 2 * l) - f * calcIn.bp) <= f + 2 * l
            /\ 2 * Abs((calcIn.bp + g) * l - (l + f) * (calcIn.bp - g))
                    <= f + 2 * l

\* basis price 20, fees 2 + 1, lot size 2: g = round(60 / 7) = 9
C14_Witness ==
    /\ calcOut.op = "feeGapStats"
    /\ calcIn.bp = 20
    /\ calcIn.sellFees = FeesOK(2)
    /\ calcIn.buyFees = FeesOK(1)
    /\ calcIn.lotSize = 2
    /\ calcOut.stats.FeeGap = 18
    /\ calcOut.stats.RoundTripFees = 3

\* C15 (as stated): the FeeGap reported by feeGapStats is 2g quantized to the
\* rate step: it is a multiple of the rate step.
C15_FeeGapSteppedToRateStep ==
    (calcOut.op = "feeGapStats" /\ calcOut.err = nil) =>
        calcOut.stats.FeeGap % calcIn.rateStep = 0

\* C15 (amended): the FeeGap reported by feeGapStats is twice the rounded
\* half-gap, round(f * basisPrice / (f + 2l)) * 2: an even number that does
\* not depend on the rate step and need not be a multiple of it; halfSpread
\* returns its half.
C15_FeeGapTwiceHalfGap ==
    (calcOut.op \in {"feeGapStats", "halfSpread"} /\ calcOut.err = nil) =>
        LET f == calcIn.sellFees.units + calcIn.buyFees.units
            h == RoundDiv(f * calcIn.bp, f + 2 * calcIn.lotSize)
        IN  IF calcOut.op = "feeGapStats"
            THEN calcOut.stats.FeeGap = 2 * h
            ELSE calcOut.halfGap = h

\* basis price 3 on a market of rate step 3, fees 1 + 0, lot size 1:
\* g = round(3 / 3) = 1 and the FeeGap is 2, not a multiple of 3
C15_Witness ==
    /\ calcOut.op = "feeGapStats"
    /\ calcIn.rateStep = 3
    /\ calcIn.bp = 3
    /\ calcIn.sellFees = FeesOK(1)
    /\ calcIn.buyFees = FeesOK(0)
    /\ calcIn.lotSize = 1
    /\ calcOut.err = nil
    /\ calcOut.stats.FeeGap = 2

\* C16: orderPrice computes the offset from the strategy: multiplier
\* round(feeAdj * GapFactor), percent round(GapFactor * basisPrice), absolute
\* the GapFactor in message-rate units, percent-plus and absolute-plus the
\* percent or absolute offset plus feeAdj; it quantizes the offset to the
\* rate step and returns basisPrice + adj for a sell and basisPrice - adj for
\* a buy (0 where adj exceeds the basis price).  For percent with GapFactor
\* 0.01 and basisPrice 1,000,000 the sell rate is 1,010,000 and the buy rate
\* 990,000; for plain percent and absolute the result does not depend on the
\* fee adjustment.
C16_OrderPriceFormula ==
    calcOut.op = "orderPrice" =>
        LET gf == calcIn.gapFactor
            bp == calcIn.bp
            percent == RoundDiv(gf * bp, GapDenom)
            absolute == RoundDiv(gf * calcIn.mkt.rateConv, GapDenom)
            offset ==
                CASE calcIn.strat = GapStrategyMultiplier ->
                        RoundDiv(calcIn.feeAdj * gf, GapDenom)
                  [] calcIn.strat = GapStrategyPercent -> percent
                  [] calcIn.strat = GapStrategyAbsolute -> absolute
                  [] calcIn.strat = GapStrategyPercentPlus ->
                        percent + calcIn.feeAdj
                  [] calcIn.strat = GapStrategyAbsolutePlus ->
                        absolute + calcIn.feeAdj
            adj == steppedRate(offset, calcIn.mkt.rateStep)
        IN  /\ calcIn.sell => calcOut.rate = bp + adj
            /\ (~calcIn.sell /\ adj <= bp) => calcOut.rate = bp - adj
            /\ (~calcIn.sell /\ adj > bp) => calcOut.rate = 0
            /\ (/\ calcIn.strat = GapStrategyPercent
                /\ gf = 10
                /\ bp = 1000000) =>
                    /\ offset = 10000
                    /\ calcOut.rate = IF calcIn.sell THEN 1010000 ELSE 990000
            /\ calcIn.strat \in {GapStrategyPercent, GapStrategyAbsolute} =>
                    \A fees \in 0..MaxFeeAdj :
                        orderPrice(calcIn.strat, calcIn.mkt, bp, fees,
                                   calcIn.sell, gf) = calcOut.rate

\* percent-plus, GapFactor 0.05, basis price 1,000,000, fee adjustment 3,
\* rate step 2: the offset 50,003 is quantized to 50,004
C16_Witness ==
    /\ calcOut.op = "orderPrice"
    /\ calcIn.strat = GapStrategyPercentPlus
    /\ calcIn.gapFactor = 50
    /\ calcIn.bp = 1000000
    /\ calcIn.feeAdj = 3
    /\ calcIn.mkt.rateStep = 2
    /\ ~calcIn.sell
    /\ calcOut.rate = 949996

\* the quantized offset of a rung of the evaluated plan: the distance of its
\* sell rate from the basis price
C17_Offset(gapFactor) ==
    LET bp == calcOut.feeGap.BasisPrice
        feeAdj == IF needBreakEvenHalfSpread(calcIn.c.GapStrategy)
                  THEN calcOut.feeGap.FeeGap \div 2
                  ELSE 0
    IN  orderPrice(calcIn.c.GapStrategy, calcIn.mkt, bp, feeAdj, TRUE,
                   gapFactor) - bp

\* the placements of one side answer the rungs of that side, one for one
C17_SideKept(placed, rungs, sell) ==
    /\ Len(placed) = Len(rungs)
    /\ \A i \in 1..Len(rungs) :
        LET bp == calcOut.feeGap.BasisPrice
            adj == C17_Offset(rungs[i].GapFactor)
        IN  /\ placed[i].Rate = IF sell THEN bp + adj
                                ELSE IF adj >= bp THEN 0
                                ELSE bp - adj
            /\ placed[i].Lots = IF placed[i].Rate = 0 THEN 0
                                ELSE rungs[i].Lots

\* C17: on success ordersToPlace returns, for each side, one TradePlacement
\* per configured rung, in the configured order; its Lots are the rung's Lots
\* unless its rate is 0, in which case the rung is kept with Lots 0; a buy
\* rate is 0 when the quantized offset is not smaller than the basis price.
\* BuyPlacements [{1, 0.01}], percent, basis price 500000, rate step 1 gives
\* the buy placement {495000, 1}.
C17_OnePlacementPerRung ==
    (calcOut.op = "ordersToPlace" /\ calcOut.err = nil) =>
        /\ C17_SideKept(calcOut.buyOrders, calcIn.c.BuyPlacements, FALSE)
        /\ C17_SideKept(calcOut.sellOrders, calcIn.c.SellPlacements, TRUE)
        /\ (/\ calcIn.c.GapStrategy = GapStrategyPercent
            /\ calcIn.c.BuyPlacements = <<[Lots |-> 1, GapFactor |-> 10]>>
            /\ calcOut.feeGap.BasisPrice = 500000
            /\ calcIn.mkt.rateStep = 1) =>
                calcOut.buyOrders = <<[Rate |-> 495000, Lots |-> 1]>>

\* absolute strategy, basis price 6, rate step 2, buy rungs {2, 0} and
\* {1, 0.1}: the second rung's offset 10 exceeds the basis price, its
\* placement is kept with rate 0 and 0 lots
C17_Witness ==
    /\ calcOut.op = "ordersToPlace"
    /\ calcOut.err = nil
    /\ calcIn.c.GapStrategy = GapStrategyAbsolute
    /\ calcIn.mkt.rateStep = 2
    /\ calcIn.in.oracle = 6
    /\ calcIn.c.BuyPlacements =
            <<[Lots |-> 2, GapFactor |-> 0], [Lots |-> 1, GapFactor |-> 100]>>
    /\ calcOut.buyOrders = <<[Rate |-> 4, Lots |-> 2], [Rate |-> 0, Lots |-> 0]>>

\* the bound of the strategy on a gap factor, as the claim states it
C18_WithinBound(strat, gapFactor) ==
    IF strat = GapStrategyMultiplier
    THEN GapDenom <= gapFactor /\ gapFactor <= 100 * GapDenom
    ELSE IF strat \in {GapStrategyPercent, GapStrategyPercentPlus}
    THEN 0 <= gapFactor /\ 10 * gapFactor <= GapDenom
    ELSE 0 <= gapFactor

C18_SideAcceptable(strat, placements) ==
    /\ \A i \in 1..Len(placements) :
            C18_WithinBound(strat, placements[i].GapFactor)
    /\ \A i, j \in 1..Len(placements) :
            i # j => placements[i].GapFactor # placements[j].GapFactor

\* C18: for a known strategy and a drift tolerance in [0, 0.01] (0 is
\* replaced by 0.001) validate succeeds if and only if every buy and sell
\* placement's GapFactor is within the strategy's bound and no two placements
\* of one side share a GapFactor; the same GapFactor on both sides is
\* accepted.  An unknown strategy or a drift tolerance outside [0, 0.01] is
\* always rejected.
C18_ValidateIff ==
    calcOut.op = "validate" =>
        LET c == calcIn.c
            known == c.GapStrategy \in Strategies
            driftOK == 0 <= c.DriftTolerance
                            /\ c.DriftTolerance <= MaxDriftTolerance
        IN  /\ (known /\ driftOK) =>
                (calcOut.err = nil <=>
                    /\ C18_SideAcceptable(c.GapStrategy, c.SellPlacements)
                    /\ C18_SideAcceptable(c.GapStrategy, c.BuyPlacements))
            /\ (~known \/ ~driftOK) => calcOut.err # nil
            /\ (calcOut.err = nil /\ c.DriftTolerance = 0) =>
                    calcOut.cfg.DriftTolerance = DefaultDriftTolerance

\* the gap factors 0 and 0.1 on both sides of a percent config are accepted
C18_Witness ==
    /\ calcOut.op = "validate"
    /\ calcIn.c.GapStrategy = GapStrategyPercent
    /\ calcIn.c.DriftTolerance = 0
    /\ calcIn.c.SellPlacements =
            <<[Lots |-> 1, GapFactor |-> 0], [Lots |-> 1, GapFactor |-> 100]>>
    /\ calcIn.c.BuyPlacements = calcIn.c.SellPlacements
    /\ calcOut.err = nil

\* C19 (as stated): whenever validate returns an error every field of the
\* config, DriftTolerance included, has the value it had before the call,
\* and newBasicMarketMaker returns no bot.
C19_ErrorLeavesConfigUntouched ==
    (calcOut.op \in {"validate", "newBasicMarketMaker"}
        /\ calcOut.err # nil) =>
            /\ calcOut.cfg = calcIn.c
            /\ ~calcOut.bot

\* C19 (amended): whenever validate returns an error newBasicMarketMaker
\* returns no bot, and the config's GapStrategy and placements have the
\* values they had before the call; its DriftTolerance has too, unless it
\* was 0: validate has then already replaced it by the default 0.001.
C19_ErrorBuildsNoBot ==
    (calcOut.op \in {"validate", "newBasicMarketMaker"}
        /\ calcOut.err # nil) =>
            LET validated == calcOut.op = "validate"
                                \/ (calcIn.hasCfg /\ ~calcIn.adaptorErr)
            IN  /\ ~calcOut.bot
                /\ calcOut.cfg =
                      [calcIn.c EXCEPT !.DriftTolerance =
                            IF validated /\ @ = 0
                            THEN DefaultDriftTolerance ELSE @]

\* a config of an unknown strategy with DriftTolerance 0 is rejected, and
\* comes back with DriftTolerance 0.001
C19_Witness ==
    /\ calcOut.op = "newBasicMarketMaker"
    /\ calcIn.c.GapStrategy = "unknown"
    /\ calcIn.c.DriftTolerance = 0
    /\ calcOut.err = errUnknownStrategy
    /\ ~calcOut.bot
    /\ calcOut.cfg.DriftTolerance = DefaultDriftTolerance

\* C20: for every placement list and every original and new lot size (the
\* new one > 0) the total quantity after updateLotSize, the sum of
\* Lots * newLotSize over the returned placements, never exceeds the total
\* quantity before it, the sum of Lots * originalLotSize over the input
\* placements.
C20_TotalNeverGrows ==
    calcOut.op = "updateLotSize" =>
        TotalQty(calcOut.placements, calcIn.newLotSize)
            <= TotalQty(calcIn.placements, calcIn.originalLotSize)

\* lots 3 and 2 at lot size 3 (15 units) moved to lot size 4: the first
\* rung takes round(9/4) = 2 lots, the second is capped at the 1 lot the
\* remaining 7 units allow, 12 units in all
C20_Witness ==
    /\ calcOut.op = "updateLotSize"
    /\ calcIn.placements = <<[Lots |-> 3, GapFactor |-> 10],
                             [Lots |-> 2, GapFactor |-> 20]>>
    /\ calcIn.originalLotSize = 3
    /\ calcIn.newLotSize = 4
    /\ calcOut.placements = <<[Lots |-> 2, GapFactor |-> 10],
                              [Lots |-> 1, GapFactor |-> 20]>>

\* the rescaled lot count of the i-th input placement
C21_Rounded(i) ==
    RoundDiv(calcIn.placements[i].Lots * calcIn.originalLotSize,
             calcIn.newLotSize)

\* the i-th input placement appears in the result (gap factors are distinct)
C21_Kept(i) ==
    \E j \in 1..Len(calcOut.placements) :
        calcOut.placements[j].GapFactor = calcIn.placements[i].GapFactor

\* the quantity left when the i-th input placement is reached: the original
\* total less what the result holds for the placements before it
C21_Budget(i) ==
    LET earlier(o) == o.GapFactor < calcIn.placements[i].GapFactor
    IN  TotalQty(calcIn.placements, calcIn.originalLotSize)
            - TotalQty(SelectSeq(calcOut.placements, earlier),
                       calcIn.newLotSize)

\* C21 (as stated): a placement whose rescaled lot count
\* round(Lots * originalLotSize / newLotSize) is 0 does not appear in the
\* result of updateLotSize.
C21_ZeroRoundedDropped ==
    calcOut.op = "updateLotSize" =>
        \A i \in 1..Len(calcIn.placements) :
            C21_Rounded(i) = 0 => ~C21_Kept(i)

\* C21 (amended): updateLotSize drops a placement exactly when less than one
\* new lot of quantity budget remains for it.  A placement whose rescaled lot
\* count rounds to 0 is raised to 1 lot and kept if the budget allows; a kept
\* placement has its rescaled lot count, at least 1, capped at the budget.
C21_DroppedIffNoBudget ==
    calcOut.op = "updateLotSize" =>
        \A i \in 1..Len(calcIn.placements) :
            LET maxLots == C21_Budget(i) \div calcIn.newLotSize
            IN  /\ C21_Kept(i) <=> maxLots >= 1
                /\ \A j \in 1..Len(calcOut.placements) :
                      calcOut.placements[j].GapFactor
                            = calcIn.placements[i].GapFactor =>
                        calcOut.placements[j].Lots
                            = Min(Max(C21_Rounded(i), 1), maxLots)

\* lots 1 and 3 at lot size 1 moved to lot size 3: the first placement
\* rounds to 0 lots and is kept with 1 lot, which leaves no budget for the
\* second, whose rescaled lot count is 1
C21_Witness ==
    /\ calcOut.op = "updateLotSize"
    /\ calcIn.placements = <<[Lots |-> 1, GapFactor |-> 10],
                             [Lots |-> 3, GapFactor |-> 20]>>
    /\ calcIn.originalLotSize = 1
    /\ calcIn.newLotSize = 3
    /\ calcOut.placements = <<[Lots |-> 1, GapFactor |-> 10]>>

(***************************************************************************)
(* C22.  No task holds keyMtx and authMtx together; locked holds only the  *)
(* read lock of the key group and authed, suspended and isDisabled only    *)
(* the read lock of the auth group; and whenever some call is in progress, *)
(* some call in progress can take its next step, so the calls never        *)
(* deadlock on the two locks.                                              *)
(***************************************************************************)
C22_InCall(t) == apc[t] # "idle"

C22_OneLockNoDeadlock ==
    /\ \A t \in AcctProcs :
        /\ ~(Holds(keyMtx, t) /\ Holds(authMtx, t))
        /\ acall[t].op = "locked"
            => keyMtx.writer # t /\ ~Holds(authMtx, t)
        /\ acall[t].op \in {"authed", "suspended", "isDisabled"}
            => authMtx.writer # t /\ ~Holds(keyMtx, t)
        /\ apc[t] = "idle" => ~Holds(keyMtx, t) /\ ~Holds(authMtx, t)
    /\ (\E t \in AcctProcs : C22_InCall(t))
        => \E u \in AcctProcs : C22_InCall(u) /\ ENABLED AcctStep(u)

\* the two locks are held by different tasks at once
C22_Witness ==
    \E t, u \in AcctProcs :
        /\ t # u
        /\ keyMtx.writer = t
        /\ u \in authMtx.readers
        /\ acall[u].op = "suspended"

(***************************************************************************)
(* C23.  Every read of a key group field by an account method is made      *)
(* while keyMtx is held and every write while it is held for writing: no   *)
(* step makes an unguarded access.  unlock reads a.encKey before it takes  *)
(* the lock (core/types.go:939), also while setupCryptoV2 writes it.       *)
(***************************************************************************)
C23_KeyGroupGuarded == unguarded = {}

(***************************************************************************)
(* C24.  sign fails, with the account-locked error and no signature, when  *)
(* no private key is resident under its read lock, and otherwise signs     *)
(* with the resident key: between its nil check and its use of the key no  *)
(* writer is in the critical section, the key it uses is the one it        *)
(* checked, that key is installed together with its ID, and it is never a  *)
(* cleared key.                                                            *)
(***************************************************************************)
C24_SignLockedOrSigns ==
    /\ \A t \in AcctProcs :
        /\ At(t, "sign", "check") => t \in keyMtx.readers /\ keyMtx.writer = "none"
        /\ At(t, "sign", "use") =>
            /\ t \in keyMtx.readers /\ keyMtx.writer = "none"
            /\ privKey \in Keys
            /\ privKey = atmp[t].privKey
            /\ id = IDOf(privKey)
    /\ aret.op = "sign" =>
        IF privKey = noKey
        THEN aret.err = errAccountLocked /\ aret.key = noKey
        ELSE aret.err = nil /\ aret.key = privKey /\ aret.seen = privKey

\* a sign and a lock ran together, the sign got the lock first and signed
C24_Witness ==
    /\ aret.op = "sign"
    /\ aret.err = nil
    /\ aret.key \in Keys
    /\ \E u \in AcctProcs : At(u, "lock", "wlock")

(***************************************************************************)
(* C25.  After lock has cleared the private key of an unlocked account, an *)
(* unlock called later that succeeds restores the account ID the account   *)
(* had when it was locked.  (lockSnap is dropped when setupCryptoV2        *)
(* installs another key, and names the unlock calls that were already      *)
(* running when lock returned.)                                            *)
(***************************************************************************)
C25_UnlockRestoresID ==
    (/\ aret.op = "unlock"
     /\ aret.err = nil
     /\ lockSnap.taken
     /\ lockSnap.wasUnlocked
     /\ aret.task \notin lockSnap.pending) => id = lockSnap.id

(***************************************************************************)
(* C26.  An unlock whose decryption fails returns the decryption error in  *)
(* a step that leaves privKey, id and encKey as they were.  A successful   *)
(* unlock writes the private key and its ID while it holds keyMtx for      *)
(* writing, so a task that holds the read lock never sees a private key    *)
(* together with the ID of another key.                                    *)
(***************************************************************************)
C26_FailedUnlockStep ==
    \A t \in AcctProcs :
        (/\ acall[t].op = "unlock"
         /\ aret'.op = "unlock"
         /\ aret'.task = t
         /\ aret'.err # nil)
        => /\ aret'.err = errDecrypt
           /\ apc[t] = "decrypt"
           /\ privKey' = privKey
           /\ id' = id
           /\ encKey' = encKey

C26_ReadersSeeKeyWithItsID ==
    /\ \A t \in AcctProcs :
        /\ (At(t, "unlock", "wPrivKey") \/ At(t, "unlock", "wId"))
            => keyMtx.writer = t
        /\ t \in keyMtx.readers => (privKey # noKey => id = IDOf(privKey))
    /\ (aret.op = "unlock" /\ aret.err = nil)
        => privKey \in Keys /\ id = IDOf(privKey) /\ aret.id = id

C26_UnlockAllOrNothing ==
    [][C26_FailedUnlockStep]_vars /\ []C26_ReadersSeeKeyWithItsID

\* an unlock is between its two writes while a reader waits for the lock
C26_Witness ==
    \E t, u \in AcctProcs :
        /\ At(t, "unlock", "wId")
        /\ privKey \in Keys
        /\ id # IDOf(privKey)
        /\ acall[u].op \in KeyReaders
        /\ apc[u] = "rlock"

(***************************************************************************)
(* C27.  setupCryptoV2 fails for a key index of 2^31 or more and when the  *)
(* seed decryption, the child derivation, the serialisation or the         *)
(* encryption fails, in a step that leaves encKey, privKey and id as they  *)
(* were; only a call without failure reaches the critical section, where   *)
(* it holds keyMtx for writing from its first write to its last, so no     *)
(* reader holds the lock while the three fields are partly written.        *)
(***************************************************************************)
C27_Writing(t) ==
    \/ At(t, "setupCryptoV2", "wEncKey")
    \/ At(t, "setupCryptoV2", "wPrivKey")
    \/ At(t, "setupCryptoV2", "wId")

C27_FailedSetupStep ==
    \A t \in AcctProcs :
        (/\ acall[t].op = "setupCryptoV2"
         /\ aret'.op = "setupCryptoV2"
         /\ aret'.task = t)
        => IF IsHardened(acall[t].keyIndex) \/ acall[t].fail # "none"
           THEN /\ aret'.err # nil
                /\ IsHardened(acall[t].keyIndex) => aret'.err = errMaxKeyIndex
                /\ apc[t] = "derive"
                /\ encKey' = encKey
                /\ privKey' = privKey
                /\ id' = id
           ELSE /\ aret'.err = nil
                /\ apc[t] = "wId"
                /\ encKey' = EncOf(privKey')
                /\ id' = IDOf(privKey')
                /\ privKey' = KeyAt(acall[t].keyIndex)

C27_NoPartialKeyState ==
    \A t \in AcctProcs :
        C27_Writing(t) =>
            /\ keyMtx.writer = t
            /\ keyMtx.readers = {}
            /\ ~IsHardened(acall[t].keyIndex)
            /\ acall[t].fail = "none"

C27_SetupAllOrNothing ==
    [][C27_FailedSetupStep]_vars /\ []C27_NoPartialKeyState

\* a setupCryptoV2 has written the new encKey but not yet the new private
\* key, while a reader waits for the lock
C27_Witness ==
    \E t, u \in AcctProcs :
        /\ At(t, "setupCryptoV2", "wPrivKey")
        /\ encKey = atmp[t].encKey
        /\ privKey # atmp[t].privKey
        /\ acall[u].op \in KeyReaders
        /\ apc[u] = "rlock"

(***************************************************************************)
(* C28.  The derivation path of setupCryptoV2 has 11 indices, each in the  *)
(* hardened range and equal to (i mod 2^31) + 2^31 for i the purpose       *)
(* constant, the first byte of the exchange's public key, the eight        *)
(* little-endian words of its other 32 bytes and the key index; the        *)
(* purpose index is the purpose constant itself; the path is the same for  *)
(* every seed; and a second run on the same seed, public key and key index *)
(* gives the same path, private key and account ID.                        *)
(***************************************************************************)
C28_Byte(n) == calcIn.dexPkB[n]

\* the low 31 bits of the little-endian word w (1..8) of the public key
C28_WordMod(w) ==
    C28_Byte(4 * w - 2) + 256 * C28_Byte(4 * w - 1) + 65536 * C28_Byte(4 * w)
        + 16777216 * (C28_Byte(4 * w + 1) % 128)

C29_SuspendedIffTierBelowOne ==
    /\ aret.op = "suspended" => (aret.flag <=> EffectiveTier(rep) < 1)
    /\ \A t \in AcctProcs :
        At(t, "suspended", "read") => t \in authMtx.readers /\ authMtx.writer = "none"

\* suspended() answers false for an account of tier 1 that is locked,
\* disabled and not authenticated
C29_Witness ==
    /\ aret.op = "suspended"
    /\ ~aret.flag
    /\ EffectiveTier(rep) = 1
    /\ ~isAuthed
    /\ disabled
    /\ privKey = noKey

(***************************************************************************)
(* C30.  Every rung of a config that validate accepts has positive Lots,   *)
(* so a TradePlacement with Lots = 0 that ordersToPlace returns has rate   *)
(* 0.  validate does not look at Lots (mm_basic.go:81-140), and            *)
(* ordersToPlace copies the Lots of a rung whose rate is not 0.            *)
(***************************************************************************)
C30_Sides == <<calcIn.c.BuyPlacements, calcIn.c.SellPlacements>>

C30_ZeroLotsOnlyAtZeroRate ==
    (calcOut.op = "ordersToPlace" /\ validate(calcIn.c).err = nil) =>
        /\ \A s \in 1..2 : \A i \in DOMAIN C30_Sides[s] :
                C30_Sides[s][i].Lots > 0
        /\ calcOut.err = nil =>
            \A o \in {calcOut.buyOrders, calcOut.sellOrders} :
                \A i \in DOMAIN o : o[i].Lots = 0 => o[i].Rate = 0

(***************************************************************************)
(* C31.  updateLotSize places as many lots as the original quantity        *)
(* allows: for an input of at least one placement, the quantity left       *)
(* unused (the original total minus the total of the result at the new lot *)
(* size) is smaller than one new lot.  The code rounds each rung on its    *)
(* own and hands no remainder on, so several rungs that each round down    *)
(* can leave a whole lot unused.                                           *)
(***************************************************************************)
C31_Unused ==
    TotalQty(calcIn.placements, calcIn.originalLotSize)
        - TotalQty(calcOut.placements, calcIn.newLotSize)

C31_UnusedBelowOneLot ==
    (calcOut.op = "updateLotSize" /\ Len(calcIn.placements) >= 1) =>
        C31_Unused < calcIn.newLotSize

C33_Received(e) ==
    \E i \in 1..Len(received) :
        isResolvedEpoch(received[i]) /\ received[i].Current = e

C33_Rebalanced(e) ==
    \E i \in 1..Len(finished) :
        finished[i].epoch = e /\ finished[i].guard = "passed"

C33_LoopNeverBusy ==
    /\ [](pc[Loop] = "guard" => ~rebalanceRunning)
    /\ [](loc[Loop].guard # "rejected")
    /\ [](\A i \in 1..Len(finished) : finished[i].guard = "passed")
    /\ \A e \in 1..MaxFairEpoch : C33_Received(e) ~> C33_Rebalanced(e)

\* the second epoch is being rebalanced, having passed the guard, after the
\* first was, while more notifications already wait in the feed
C33_Witness ==
    /\ Len(started) = 2
    /\ C33_Rebalanced(started[1])
    /\ pc[Loop] \in PastGuard
    /\ loc[Loop].guard = "passed"
    /\ loc[Loop].newEpoch = started[2]
    /\ bookFeed # <<>>

(***************************************************************************)
(* C34.  Under every interleaving of setupCryptoV2, unlock and lock, in     *)
(* every state in which no writer is inside its keyMtx critical section, a  *)
(* resident private key comes with the account ID derived from it; the      *)
(* writers that install a key hold the write lock from the write of the key *)
(* to the write of its ID, and a sign that is about to use the key finds    *)
(* the ID that belongs to it.                                               *)
(***************************************************************************)
C34_KeyWriter(t) ==
    \/ At(t, "setupCryptoV2", "wPrivKey") \/ At(t, "setupCryptoV2", "wId")
    \/ At(t, "unlock", "wPrivKey") \/ At(t, "unlock", "wId")
    \/ At(t, "lock", "write")

C34_ResidentKeyHasItsID ==
    /\ keyMtx.writer = "none" => (privKey # noKey => id = IDOf(privKey))
    /\ \A t \in AcctProcs :
        /\ C34_KeyWriter(t) => keyMtx.writer = t
        /\ (privKey # noKey /\ id # IDOf(privKey)) =>
                \E u \in AcctProcs :
                    At(u, "setupCryptoV2", "wId") \/ At(u, "unlock", "wId")
        /\ At(t, "sign", "use") => id = IDOf(atmp[t].privKey)

\* one task's unlock has installed a key and a second task's setupCryptoV2
\* has replaced it with another key and that key's ID
C34_Witness ==
    /\ aret.op = "setupCryptoV2"
    /\ aret.err = nil
    /\ lockSnap = NoSnap
    /\ privKey \in Keys
    /\ privKey # "keyA"
    /\ id = IDOf(privKey)
    /\ \E u \in AcctProcs : adone[u] >= 1 /\ u # aret.task

(***************************************************************************)
(* C35.  The two field groups of the account change independently: every   *)
(* step of setupCryptoV2, unlock and lock leaves isAuthed, disabled, rep,   *)
(* the bond lists and tier settings, and viewOnly as they were; every step  *)
(* of unAuth leaves everything but isAuthed as it was and its write sets    *)
(* isAuthed to false; every step of toggleAccountStatus leaves everything   *)
(* but disabled as it was and its write sets disabled to its argument.      *)
(***************************************************************************)
C35_StepOf(t, op) == acall[t].op = op /\ apc'[t] # apc[t]

C35_GroupsIndependent ==
    \A t \in AcctProcs :
        /\ (\E op \in {"setupCryptoV2", "unlock", "lock"} : C35_StepOf(t, op))
            => /\ authGroup' = authGroup
               /\ viewOnly' = viewOnly
        /\ C35_StepOf(t, "unAuth")
            => /\ keyGroup' = keyGroup
               /\ <<disabled, rep, bonding>>' = <<disabled, rep, bonding>>
               /\ isAuthed' = IF apc[t] = "write" THEN FALSE ELSE isAuthed
        /\ C35_StepOf(t, "toggleAccountStatus")
            => /\ keyGroup' = keyGroup
               /\ <<isAuthed, rep, bonding>>' = <<isAuthed, rep, bonding>>
               /\ disabled' = IF apc[t] = "write" THEN acall[t].disable
                              ELSE disabled

C35_AuthAndKeyGroupsIndependent == [][C35_GroupsIndependent]_vars

\* an authenticated, unlocked account has just been locked: it is authed and
\* locked at the same time
C35_Witness ==
    /\ aret.op = "lock"
    /\ lockSnap.taken
    /\ lockSnap.wasUnlocked
    /\ privKey = noKey
    /\ isAuthed

(***************************************************************************)
(* C36.  For every gap strategy ordersToPlace fails exactly when basisPrice *)
(* or feeGapStats fails, with the error of the first of the two that fails, *)
(* and then returns no placement on either side and registers no fee gap;   *)
(* the fee gap is registered exactly in the cycles where both succeeded,    *)
(* and is the one feeGapStats returned for the basis price.                 *)
(***************************************************************************)
C36_FailsWhenEitherFails ==
    calcOut.op = "ordersToPlace" =>
        LET b == basisPrice(calcIn.in.oracle, calcIn.in.fiat,
                            calcIn.mkt.rateStep)
            g == feeGapStats(b.bp, calcIn.in.sellFees, calcIn.in.buyFees,
                             calcIn.mkt.lotSize)
        IN  /\ calcOut.err # nil <=> (b.err # nil \/ g.err # nil)
            /\ b.err # nil => calcOut.err = b.err
            /\ (b.err = nil /\ g.err # nil) => calcOut.err = g.err
            /\ calcOut.err # nil =>
                /\ calcOut.buyOrders = <<>>
                /\ calcOut.sellOrders = <<>>
            /\ calcOut.registered <=> calcOut.err = nil
            /\ calcOut.registered =>
                /\ calcOut.feeGap = g.stats
                /\ calcOut.feeGap.BasisPrice = b.bp

\* a plain percent or absolute configuration with rungs on both sides and a
\* basis price, whose fee query fails
C36_Witness ==
    /\ calcOut.op = "ordersToPlace"
    /\ calcIn.c.GapStrategy \in {GapStrategyPercent, GapStrategyAbsolute}
    /\ calcIn.c.BuyPlacements # <<>>
    /\ calcIn.c.SellPlacements # <<>>
    /\ basisPrice(calcIn.in.oracle, calcIn.in.fiat, calcIn.mkt.rateStep).err = nil
    /\ calcOut.err # nil
    /\ calcOut.buyOrders = <<>>
    /\ calcOut.sellOrders = <<>>
    /\ ~calcOut.registered

(***************************************************************************)
(* C37.  When a cycle of ordersToPlace ends without error, every nonzero    *)
(* rate of its placements is a multiple of the rate step then in force,     *)
(* whatever rate-step update fell into the cycle.                           *)
(***************************************************************************)
C37_OnStep(placements, step) ==
    \A i \in 1..Len(placements) :
        placements[i].Rate # 0 => placements[i].Rate % step = 0

C37_RatesOnStepInForce ==
    (calcOut.op = "cycle" /\ calcOut.at = "done" /\ calcOut.err = nil) =>
        /\ C37_OnStep(calcOut.buyOrders, calcOut.rateStep)
        /\ C37_OnStep(calcOut.sellOrders, calcOut.rateStep)

(***************************************************************************)
(* C38.  For a basis price above zero, any fee adjustment and a gap factor  *)
(* validate accepts, orderPrice gives a sell rate that is at least the      *)
(* basis price and a buy rate that is at most the basis price, every buy    *)
(* rate of the cycle is below every sell rate, a sell rung keeps its lots   *)
(* (its rate is never zero), and a larger gap factor never gives a lower    *)
(* sell rate or a higher buy rate.                                          *)
(***************************************************************************)
C38_Rate(sell, gapFactor) ==
    orderPrice(calcIn.strat, calcIn.mkt, calcIn.bp, calcIn.feeAdj, sell,
               gapFactor)

C38_ValidGapFactors ==
    {g \in GapFactors : gapFactorInBounds(calcIn.strat, g)}

C38_SellAboveBuyBelow ==
    (calcOut.op = "orderPrice" /\ calcIn.bp > 0) =>
        /\ calcIn.sell =>
            /\ calcOut.rate >= calcIn.bp
            /\ calcOut.rate # 0
            /\ orders(calcIn.strat, calcIn.mkt, calcIn.bp, calcIn.feeAdj,
                      <<[Lots |-> 1, GapFactor |-> calcIn.gapFactor]>>,
                      TRUE)[1].Lots = 1
        /\ ~calcIn.sell => calcOut.rate <= calcIn.bp
        /\ \A g \in C38_ValidGapFactors :
            /\ calcIn.sell => C38_Rate(FALSE, g) < calcOut.rate
            /\ ~calcIn.sell => calcOut.rate < C38_Rate(TRUE, g)
            /\ (g >= calcIn.gapFactor /\ calcIn.sell)
                    => C38_Rate(TRUE, g) >= calcOut.rate
            /\ (g >= calcIn.gapFactor /\ ~calcIn.sell)
                    => C38_Rate(FALSE, g) <= calcOut.rate

\* a buy rung whose offset exceeds the basis price is clamped to rate 0,
\* while a smaller gap factor still gives a buy rate above 0 and the sell
\* rung of the same gap factor lies above the basis price
C38_Witness ==
    /\ calcOut.op = "orderPrice"
    /\ ~calcIn.sell
    /\ calcIn.bp > 0
    /\ calcOut.rate = 0
    /\ C38_Rate(TRUE, calcIn.gapFactor) > 2 * calcIn.bp
    /\ \E g \in C38_ValidGapFactors :
            g < calcIn.gapFactor /\ C38_Rate(FALSE, g) > 0

(***************************************************************************)
(* C39.  The result of updateLotSize is an order-preserving subsequence of  *)
(* the input ladder: its gap factors are those of a set of input positions, *)
(* in input order, each position used once; every returned placement has    *)
(* Lots >= 1; and when the new lot size equals the original one and every   *)
(* input placement has Lots >= 1, the result is the input.                  *)
(***************************************************************************)
C39_GapFactors(placements) ==
    [i \in 1..Len(placements) |-> placements[i].GapFactor]

\* the gap factors at the input positions idx, in input order
C39_Pick(idx) ==
    LET marked == [i \in 1..Len(calcIn.placements) |->
                        [i |-> i, g |-> calcIn.placements[i].GapFactor]]
        picked == SelectSeq(marked, LAMBDA e : e.i \in idx)
    IN  [k \in 1..Len(picked) |-> picked[k].g]

C39_OrderPreservingSubsequence ==
    calcOut.op = "updateLotSize" =>
        /\ \E idx \in SUBSET (1..Len(calcIn.placements)) :
                C39_GapFactors(calcOut.placements) = C39_Pick(idx)
        /\ \A j \in 1..Len(calcOut.placements) : calcOut.placements[j].Lots >= 1
        /\ (/\ calcIn.newLotSize = calcIn.originalLotSize
            /\ \A i \in 1..Len(calcIn.placements) :
                    calcIn.placements[i].Lots >= 1)
            => calcOut.placements = calcIn.placements

\* lots 2, 1 and 1 at lot size 1 moved to lot size 2: the first two rungs
\* are kept with 1 lot each, in order, and the third is dropped
C39_Witness ==
    /\ calcOut.op = "updateLotSize"
    /\ calcIn.placements = <<[Lots |-> 2, GapFactor |-> 10],
                             [Lots |-> 1, GapFactor |-> 20],
                             [Lots |-> 1, GapFactor |-> 30]>>
    /\ calcIn.originalLotSize = 1
    /\ calcIn.newLotSize = 2
    /\ calcOut.placements = <<[Lots |-> 1, GapFactor |-> 10],
                              [Lots |-> 1, GapFactor |-> 20]>>

(***************************************************************************)
(* C40.  matchFromMetaMatchWithConfs attaches confirmation counts to the    *)
(* swap coin only when the match is in the waiting status for that coin     *)
(* (the user's own swap has been cast), the match is not revoked and the    *)
(* required count is above 0, and likewise to the counter-swap coin, for    *)
(* the maker's side and the taker's side alike.                             *)
(***************************************************************************)
C40_SwapWaiting ==
    \/ (calcIn.mm.Side = Taker /\ calcIn.mm.Status = TakerSwapCast)
    \/ (calcIn.mm.Side = Maker /\ calcIn.mm.Status = MakerSwapCast)

C40_CounterSwapWaiting ==
    \/ (calcIn.mm.Side = Maker /\ calcIn.mm.Status = TakerSwapCast)
    \/ (calcIn.mm.Side = Taker /\ calcIn.mm.Status = MakerSwapCast)

C40_ConfsOnlyWhenWaiting ==
    calcOut.op = "matchFromMetaMatchWithConfs" =>
        /\ calcOut.match.Swap.Confs # NoConfs =>
            /\ C40_SwapWaiting
            /\ ~calcIn.mm.Revoked
            /\ calcIn.confs.swapReq > 0
        /\ calcOut.match.CounterSwap.Confs # NoConfs =>
            /\ C40_CounterSwapWaiting
            /\ ~calcIn.mm.Revoked
            /\ calcIn.confs.counterReq > 0

====
